---- MODULE Spec2Model ----
(***************************************************************************)
(* A model of the plant-pipeline repository: the PlantDBWrapper store      *)
(* (storage/database.py), the serial ingestion loop                        *)
(* (input/serial_ingestor.py), the legacy ingestion loop (ingest/ingest.py)*)
(* the 5-minute rollup worker (processing/rollup_job.py) and the           *)
(* orchestrator of the child processes (core/pipe.py).                     *)
(*                                                                         *)
(* Each subsystem has its own next-state relation and specification over   *)
(* the one set of variables:                                               *)
(*   SpecCal     calibration calls of PlantDBWrapper from several threads  *)
(*   SpecStore   insert_single_reading / insert_batch_readings             *)
(*   SpecStoreOpen  the same, with the constructor of the wrapper          *)
(*   Spec        the serial ingestor: its read loop, commits, spool        *)
(*               rotation, stops, crashes and restarts                     *)
(*   SpecLoop    the read loop of the serial ingestor on its own           *)
(*   SpecDecode  the decoding of one line by the serial ingestor           *)
(*   SpecLegacy  the legacy ingestion loop                                 *)
(*   SpecRollup  run_once / run_forever of the rollup worker               *)
(*   SpecOrch    the orchestrator: spawning, restarting and stopping the   *)
(*               child processes                                           *)
(*   SpecOrchLive  the same, with the orchestrator's steps taken fairly    *)
(*   SpecShared  the read loop beside the cycles of the rollup worker on   *)
(*               one database                                              *)
(*   SpecOpen    open_serial of the serial ingestor                        *)
(*   SpecBucket  the bucket key and the window test on a timestamp's text  *)
(*                                                                         *)
(* An optional value (Python None, SQL NULL) is the empty sequence and a   *)
(* present value v is <<v>>.                                               *)
(***************************************************************************)
EXTENDS Integers, Sequences, FiniteSets, TLC

VARIABLES
    \* ---- PlantDBWrapper: calibrations (database.py 216-321) ----
    probes,              \* committed probes table: set of probe ids
    probe_calibrations,  \* committed probe_calibrations table: Seq of rows
    wlock,               \* SQLite write lock: <<>> or <<thread>>
    tx,                  \* uncommitted view of the lock holder
    th,                  \* per thread: position and locals of its current call
    \* ---- PlantDBWrapper: readings (database.py 119-199) ----
    store_readings,      \* committed readings table of the wrapper: Seq of rows
    store_conn,          \* the calling thread's connection: open transaction and
                         \* the rows it has inserted but not committed
    store_arg,           \* the payloads of the caller's current call
    store_last,          \* the call made on store_arg: operation, fault, result
                         \* and the rows visible before it
    \* ---- the shared database of the ingestor and the rollup worker ----
    now,                 \* wall clock, seconds
    readings,            \* readings table as the ingestor's connection sees it
    bad_rows,            \* bad_rows table (dead letters), likewise
    ingest_state,        \* ingest_state table: plant_id -> last_seq, likewise
    committed,           \* how much of the three tables is committed
    \* ---- serial_ingestor.main (serial_ingestor.py 201-327) ----
    ing_pc,              \* "loop" while the read loop runs, "exited" after it
    last_seq_by_plant,   \* in-memory dedup map
    dropped_dups,        \* duplicate counter
    rows_since_commit,   \* rows inserted since the last policy commit
    spool,               \* lines appended to the active spool segment
    spool_offset,        \* lines covered by the saved spool offset
    lines_read,          \* number of lines read so far
    flush_every,         \* args.flush_every
    last_commit_time,    \* time of the last policy commit
    retired,             \* retired spool segments: set of files
    restarts,            \* how often the process has been started again
    first_pending,       \* index in the active segment of the first line whose
                         \* store effect is not committed, 0 when there is none
    ing_last,            \* the last line read: the steps taken and the outcome
    rot_last,            \* the last rotation: what the rename and the prune did
    faults,              \* how many operations have failed so far
    \* ---- ingest/ingest.py main (the legacy ingestion loop) ----
    reading,             \* its reading table: Seq of rows
    drops,               \* its count of lines that were no JSON
    legacy_last,         \* the last line it read and the rows that line added
    \* ---- rollup_job.py ----
    readings_5m,         \* committed readings_5m table: set of bucket rows
    rollup_meta,         \* rollup_meta row 1: last run and last cutoff
    rollup_pc,           \* run_forever: "sleep" between cycles, "exited" after it
    rollup_last,         \* the last cycle: window, result, what it saw and wrote
    \* ---- serial_ingestor.py: decoding of one line (107-132, 248-252) ----
    dec_line,            \* the line handed to json.loads and validate_payload
    dec_out,             \* what decoding made of it: raised, or the row built
    \* ---- core/pipe.py: the orchestrator and its child processes ----
    children,            \* per child: what ch.process refers to, the number of
                         \* its processes that are alive, ch.backoff_sec
    orch_pc,             \* "start" before start_all, "run" in the loop of
                         \* run, "stopped" after _shutdown
    orch_stop,           \* self._stop
    cycles,              \* rollup cycles in flight in the rollup processes
    orch_at,             \* the place in self.children the for loop of run is
                         \* at; one more than their number at the while test
    pipes,               \* per child: the lines in the stdout pipe of its
                         \* process that the orchestrator has not read
    \* ---- serial_ingestor.open_serial (serial_ingestor.py 56-67) ----
    os_pc,               \* "try" in the loop, "returned" or "raised" after it
    os_max_retries,      \* the argument max_retries
    os_attempt,          \* the local attempt
    os_opens,            \* how often serial.Serial has been called
    os_delays,           \* the sleeps made so far, in seconds
    \* ---- rollup_job.py: the bucket key of one timestamp (12-17, 24-46) ----
    bk_ts,               \* the time a reading was stamped with, seconds
    bk_now,              \* the time of the cycle
    bk_out               \* the window of the cycle and the key SQL computes

calVars == <<probes, probe_calibrations, wlock, tx, th>>
storeVars == <<store_readings, store_conn, store_arg, store_last>>
dbVars == <<now, readings, bad_rows, ingest_state, committed>>
ingVars == <<ing_pc, last_seq_by_plant, dropped_dups, rows_since_commit, spool,
             spool_offset, lines_read, flush_every, last_commit_time, retired,
             restarts, first_pending, ing_last, rot_last, faults>>

vars == <<probes, probe_calibrations, wlock, tx, th,
          store_readings, store_conn, store_arg, store_last,
          now, readings, bad_rows, ingest_state, committed,
          ing_pc, last_seq_by_plant, dropped_dups, rows_since_commit, spool,
          spool_offset, lines_read, flush_every, last_commit_time, retired,
          restarts, first_pending, ing_last, rot_last, faults,
          reading, drops, legacy_last,
          readings_5m, rollup_meta, rollup_pc, rollup_last,
          dec_line, dec_out,
          children, orch_pc, orch_stop, cycles, orch_at, pipes,
          os_pc, os_max_retries, os_attempt, os_opens, os_delays,
          bk_ts, bk_now, bk_out>>

legacyVars == <<reading, drops, legacy_last>>
rollupVars == <<readings_5m, rollup_meta, rollup_pc, rollup_last>>
decodeVars == <<dec_line, dec_out>>
orchVars == <<children, orch_pc, orch_stop, cycles, orch_at, pipes>>
openVars == <<os_pc, os_max_retries, os_attempt, os_opens, os_delays>>
bucketVars == <<bk_ts, bk_now, bk_out>>
otherThanCal == <<storeVars, dbVars, ingVars, legacyVars, rollupVars, decodeVars,
                  orchVars, openVars, bucketVars>>
otherThanStore == <<calVars, dbVars, ingVars, legacyVars, rollupVars, decodeVars,
                    orchVars, openVars, bucketVars>>

None == <<>>
Some(v) == <<v>>
IsNone(o) == o = <<>>
Val(o) == o[1]

\* ------------------------------------------------------------------------
\* Bounds of the model
\* ------------------------------------------------------------------------
MaxCalRows == 3
MaxStoreRows == 3
MaxBatch == 2
MaxLines == 3
\* --flush-every (serial_ingestor.py 50, default 25), small here so that the
\* row-count commit happens within MaxLines lines
FlushEvery == 2
MaxTicks == 3
MaxReadings == 2
MaxRestarts == 1
\* How many operations of the ingestor may fail in one behaviour: a write
\* to the spool, a statement or commit of the database, an unlink, or the
\* process itself (Ctrl-C, kill).
MaxFaults == 1
\* How often the clock advances while the ingestor runs.
MaxIngestTicks == 1

Threads == {"t1", "t2"}
Probes == {1, 2}
\* Calibration parameter sets a caller may supply (index of an envelope).
Envelopes == {1, 2}

\* ------------------------------------------------------------------------
\* PlantDBWrapper: calibrations
\* ------------------------------------------------------------------------
IdleThread == [pc |-> "idle", op |-> "none", probe_id |-> 0, env |-> 0,
               fresh |-> FALSE, cal_id |-> None, ret |-> None]

\* SELECT id FROM probe_calibrations WHERE probe_id=? AND active=1 (first row)
ActiveRows(table, p) ==
    {i \in 1..Len(table) : table[i].probe_id = p /\ table[i].active = 1}

get_active_calibration_id(table, p) ==
    IF ActiveRows(table, p) = {} THEN None
    ELSE Some(table[CHOOSE i \in ActiveRows(table, p) :
                      \A j \in ActiveRows(table, p) : i <= j].id)

\* UPDATE probe_calibrations SET active=0 WHERE probe_id=? AND active=1
DeactivateNone(table, p) == table
Deactivate(table, p) ==
    [i \in 1..Len(table) |->
        IF table[i].probe_id = p /\ table[i].active = 1
        THEN [table[i] EXCEPT !.active = 0] ELSE table[i]]

\* INSERT INTO probe_calibrations (...) VALUES (..., 1); lastrowid
InsertCalibration(table, p, e) ==
    Append(table, [id |-> Len(table) + 1, probe_id |-> p, env |-> e, active |-> 1])

\* The view a thread's connection reads: its own uncommitted changes while it
\* holds the write lock, the committed tables otherwise.
View(t) ==
    IF wlock = Some(t) THEN tx
    ELSE [probes |-> probes, cals |-> probe_calibrations]

\* ROLLBACK: drop the uncommitted changes and release the write lock.
RollbackLockKept(t) == wlock
RollbackLock(t) == IF wlock = Some(t) THEN None ELSE wlock
NoTx == [probes |-> {}, cals |-> <<>>]
RollbackTx(t) == IF wlock = Some(t) THEN NoTx ELSE tx

\* A call begins: set_active_calibration (235-252) or
\* upsert_active_calibration_from_defaults (292).
CallSetActive(t) ==
    /\ th[t].pc = "idle"
    /\ Len(probe_calibrations) < MaxCalRows
    /\ \E p \in Probes, e \in Envelopes :
         th' = [th EXCEPT ![t] = [IdleThread EXCEPT !.pc = "ensure", !.op = "set",
                    !.probe_id = p, !.env = e,
                    !.fresh = (ActiveRows(probe_calibrations, p) = {})]]
    /\ UNCHANGED <<probes, probe_calibrations, wlock, tx, otherThanCal>>

CallUpsert(t) ==
    /\ th[t].pc = "idle"
    /\ Len(probe_calibrations) < MaxCalRows
    /\ \E p \in Probes :
         th' = [th EXCEPT ![t] = [IdleThread EXCEPT !.pc = "check", !.op = "upsert",
                    !.probe_id = p, !.env = 1,
                    !.fresh = (ActiveRows(probe_calibrations, p) = {})]]
    /\ UNCHANGED <<probes, probe_calibrations, wlock, tx, otherThanCal>>

\* upsert_active_calibration_from_defaults, 293-296: the existence check, read
\* in autocommit mode outside any transaction.
UpsertExistenceCheck(t) ==
    get_active_calibration_id(View(t).cals, th[t].probe_id)

UpsertCheck(t) ==
    /\ th[t].pc = "check"
    /\ LET found == UpsertExistenceCheck(t) IN
         th' = [th EXCEPT ![t] =
                  IF ~IsNone(found)
                  THEN [@ EXCEPT !.pc = "done", !.ret = found]
                  ELSE [@ EXCEPT !.pc = "ensure"]]
    /\ UNCHANGED <<probes, probe_calibrations, wlock, tx, otherThanCal>>

\* set_active_calibration, 252-253: BEGIN, then ensure_probe_exists, the first
\* write statement of the transaction: it takes the write lock (also when the
\* probe exists and ON CONFLICT DO NOTHING changes nothing).
EnsureProbe(t) ==
    /\ th[t].pc = "ensure"
    /\ IsNone(wlock)
    /\ wlock' = Some(t)
    /\ tx' = [probes |-> probes \cup {th[t].probe_id}, cals |-> probe_calibrations]
    /\ th' = [th EXCEPT ![t].pc = "deact"]
    /\ UNCHANGED <<probes, probe_calibrations, otherThanCal>>

\* The same statement when another connection holds the write lock for longer
\* than busy_timeout: OperationalError, handled at 285-290.
EnsureProbeBusy(t) ==
    /\ th[t].pc = "ensure"
    /\ ~IsNone(wlock) /\ wlock # Some(t)
    /\ th' = [th EXCEPT ![t] = [@ EXCEPT !.pc = "done", !.ret = None]]
    /\ UNCHANGED <<probes, probe_calibrations, wlock, tx, otherThanCal>>

\* 255-258
DeactivatePrior(t) ==
    /\ th[t].pc = "deact"
    /\ tx' = [tx EXCEPT !.cals = Deactivate(tx.cals, th[t].probe_id)]
    /\ th' = [th EXCEPT ![t].pc = "insert"]
    /\ UNCHANGED <<probes, probe_calibrations, wlock, otherThanCal>>

\* 260-274
InsertNew(t) ==
    /\ th[t].pc = "insert"
    /\ Len(tx.cals) < MaxCalRows
    /\ tx' = [tx EXCEPT !.cals = InsertCalibration(tx.cals, th[t].probe_id, th[t].env)]
    /\ th' = [th EXCEPT ![t] = [@ EXCEPT !.pc = "recheck",
                                        !.cal_id = Some(Len(tx.cals) + 1)]]
    /\ UNCHANGED <<probes, probe_calibrations, wlock, otherThanCal>>

\* 276-281: the inserted row must be visible as active, else RuntimeError
Recheck(t) ==
    /\ th[t].pc = "recheck"
    /\ LET visible == \E i \in 1..Len(tx.cals) :
                         /\ tx.cals[i].id = Val(th[t].cal_id)
                         /\ tx.cals[i].probe_id = th[t].probe_id
                         /\ tx.cals[i].active = 1
       IN IF visible
          THEN /\ th' = [th EXCEPT ![t].pc = "commit"]
               /\ UNCHANGED <<wlock, tx>>
          ELSE /\ th' = [th EXCEPT ![t] = [@ EXCEPT !.pc = "done", !.ret = None]]
               /\ wlock' = RollbackLock(t)
               /\ tx' = RollbackTx(t)
    /\ UNCHANGED <<probes, probe_calibrations, otherThanCal>>

\* 283-284: COMMIT publishes the transaction's view and releases the lock
CommitCal(t) ==
    /\ th[t].pc = "commit"
    /\ probes' = tx.probes
    /\ probe_calibrations' = tx.cals
    /\ wlock' = None
    /\ tx' = NoTx
    /\ th' = [th EXCEPT ![t] = [@ EXCEPT !.pc = "done", !.ret = th[t].cal_id]]
    /\ UNCHANGED otherThanCal

\* 285-290: a statement of the transaction raises (I/O error, disk full,
\* constraint): ROLLBACK and return None.
FailInTxn(t) ==
    /\ th[t].pc \in {"deact", "insert", "recheck", "commit"}
    /\ wlock' = RollbackLock(t)
    /\ tx' = RollbackTx(t)
    /\ th' = [th EXCEPT ![t] = [@ EXCEPT !.pc = "done", !.ret = None]]
    /\ UNCHANGED <<probes, probe_calibrations, otherThanCal>>

\* The call returns to its caller.
ReturnCal(t) ==
    /\ th[t].pc = "done"
    /\ th' = [th EXCEPT ![t] = IdleThread]
    /\ UNCHANGED <<probes, probe_calibrations, wlock, tx, otherThanCal>>

InitCal ==
    /\ probes = {}
    /\ probe_calibrations = <<>>
    /\ wlock = None
    /\ tx = NoTx
    /\ th = [t \in Threads |-> IdleThread]

NextCal ==
    \E t \in Threads :
        \/ CallSetActive(t)
        \/ CallUpsert(t)
        \/ UpsertCheck(t)
        \/ EnsureProbe(t)
        \/ EnsureProbeBusy(t)
        \/ DeactivatePrior(t)
        \/ InsertNew(t)
        \/ Recheck(t)
        \/ CommitCal(t)
        \/ FailInTxn(t)
        \/ ReturnCal(t)

\* ------------------------------------------------------------------------
\* PlantDBWrapper: insert_single_reading / insert_batch_readings
\* ------------------------------------------------------------------------
\* A payload value is [kind, num]: kind "none" (None), "num" (a number or a
\* numeric string, value num) or "badstr" (a string that is no number).
PNone == [kind |-> "none", num |-> 0]
PNum(n) == [kind |-> "num", num |-> n]
PBad == [kind |-> "badstr", num |-> 0]

\* A payload timestamp: whether it is a str, and the text's separator, month
\* and UTC-offset suffix, the parts strptime("%Y-%m-%d %H:%M:%S") can reject.
TsGood  == [isstr |-> TRUE,  sep |-> " ", month |-> 5,  suffix |-> "", minute |-> 0]
TsGood2 == [isstr |-> TRUE,  sep |-> " ", month |-> 5,  suffix |-> "", minute |-> 7]
TsIsoT  == [isstr |-> TRUE,  sep |-> "T", month |-> 5,  suffix |-> "+00:00", minute |-> 0]
TsMonth == [isstr |-> TRUE,  sep |-> " ", month |-> 13, suffix |-> "", minute |-> 0]
TsNoStr == [isstr |-> FALSE, sep |-> " ", month |-> 5,  suffix |-> "", minute |-> 0]

\* __is_valid_iso_ts, 119-126
IsValidIsoTs(ts) ==
    /\ ts.isstr
    /\ ts.sep = " "
    /\ ts.suffix = ""
    /\ ts.month \in 1..12
    /\ ts.minute \in 0..59

\* __opt_float / __opt_int, 128-136: None stays None, a number converts, any
\* other value raises ValueError.
OptRaises(v) == v.kind = "badstr"
OptNum(v) == IF v.kind = "none" THEN None ELSE Some(v.num)

Payload(ts, lux, rh, temp_c, moisture_raw) ==
    [ts |-> ts, probe_id |-> PNum(1), lux |-> lux, rh |-> rh, temp_c |-> temp_c,
     moisture_raw |-> moisture_raw, seq |-> PNone, calibration_id |-> PNone]

\* The payloads callers supply: valid ones, one with no measurement, ones with
\* a bad timestamp and one with a value that is no number.
Payloads ==
    { Payload(TsGood,  PNum(300), PNum(40), PNum(21), PNum(320)),
      Payload(TsGood2, PNone,     PNone,    PNone,    PNum(320)),
      Payload(TsGood,  PNum(300), PNone,    PNone,    PNone),
      Payload(TsGood,  PNone,     PNone,    PNone,    PNone),
      Payload(TsIsoT,  PNum(300), PNum(40), PNum(21), PNum(320)),
      Payload(TsMonth, PNone,     PNone,    PNone,    PNum(320)),
      Payload(TsNoStr, PNum(300), PNone,    PNone,    PNone),
      Payload(TsGood,  PBad,      PNone,    PNone,    PNum(320)) }

MeasurementCols == {"lux", "rh", "temp_c", "moisture_raw"}
ConvertedCols == {"probe_id", "lux", "rh", "temp_c", "moisture_raw", "seq",
                  "calibration_id"}

\* __build_row, 142-159: whether it raises, and the row it returns otherwise
RowOf(p) ==
    [ts |-> p.ts, probe_id |-> OptNum(p.probe_id), lux |-> OptNum(p.lux),
     rh |-> OptNum(p.rh), temp_c |-> OptNum(p.temp_c),
     moisture_raw |-> OptNum(p.moisture_raw), seq |-> OptNum(p.seq),
     calibration_id |-> OptNum(p.calibration_id)]

HasMeasurement(row) == \E k \in MeasurementCols : ~IsNone(row[k])

BuildRowRaisesNoMeasurementCheck(p) ==
    \/ ~IsValidIsoTs(p.ts)
    \/ \E k \in ConvertedCols : OptRaises(p[k])

BuildRowRaises(p) ==
    \/ ~IsValidIsoTs(p.ts)
    \/ \E k \in ConvertedCols : OptRaises(p[k])
    \/ ~HasMeasurement(RowOf(p))

\* No call made yet on the current argument.
NoCall == [op |-> "none", tbl |-> TRUE, fault |-> 0, ret |-> FALSE, before |-> <<>>]

\* The connection with no transaction open.
ClosedConn == [txn |-> FALSE, pending |-> <<>>]

\* ROLLBACK (197): ends the open transaction and drops its rows; with no
\* transaction open it raises, which the finally clause swallows.
RollbackSkipped(c) == c
RollbackConn(c) == ClosedConn

\* The rows the connection sees.
VisibleRows == store_readings \o store_conn.pending

\* insert_single_reading, 163-175. tbl: the readings table exists; fault: the
\* INSERT raises (constraint of the schema, I/O error, lock timeout).
InsertSingleOutcome(p, tbl, fault) ==
    IF ~tbl \/ BuildRowRaises(p) \/ fault
    THEN [ret |-> FALSE, readings |-> store_readings, conn |-> store_conn]
    ELSE IF store_conn.txn
    THEN [ret |-> TRUE, readings |-> store_readings,
          conn |-> [store_conn EXCEPT !.pending = Append(@, RowOf(p))]]
    ELSE [ret |-> TRUE, readings |-> Append(store_readings, RowOf(p)),
          conn |-> store_conn]

\* The caller puts one more payload into the argument of its next call.
AddPayload ==
    /\ store_last.op = "none"
    /\ Len(store_arg) < MaxBatch
    /\ Len(VisibleRows) + Len(store_arg) < MaxStoreRows
    /\ \E p \in Payloads : store_arg' = Append(store_arg, p)
    /\ UNCHANGED <<store_readings, store_conn, store_last, otherThanStore>>

\* The caller has seen the result and turns to its next call.
NextCall ==
    /\ store_last.op # "none"
    /\ store_arg' = <<>>
    /\ store_last' = NoCall
    /\ UNCHANGED <<store_readings, store_conn, otherThanStore>>

InsertSingle ==
    /\ store_last.op = "none"
    /\ Len(store_arg) = 1
    /\ \E tbl \in BOOLEAN, fault \in BOOLEAN :
        LET out == InsertSingleOutcome(store_arg[1], tbl, fault) IN
        /\ store_readings' = out.readings
        /\ store_conn' = out.conn
        /\ store_last' = [op |-> "single", tbl |-> tbl,
                          fault |-> IF fault THEN 1 ELSE 0, ret |-> out.ret,
                          before |-> VisibleRows]
    /\ UNCHANGED <<store_arg, otherThanStore>>

\* The rows of a batch, in order (181).
RECURSIVE RowsOf(_)
RowsOf(ps) == IF ps = <<>> THEN <<>> ELSE <<RowOf(Head(ps))>> \o RowsOf(Tail(ps))

Prefix(sq, n) == SubSeq(sq, 1, n)

\* insert_batch_readings, 177-199. fault = 0: no statement fails; fault = k in
\* 1..Len: executemany raises at the k-th row; fault = Len + 1: COMMIT raises.
InsertBatchOutcome(ps, tbl, fault) ==
    LET rows == RowsOf(ps)
        unchanged == [ret |-> FALSE, readings |-> store_readings, conn |-> store_conn]
    IN
    IF ~tbl THEN unchanged
    ELSE IF \E i \in 1..Len(ps) : BuildRowRaises(ps[i])
         \* the ValueError leaves 181; ROLLBACK at 197, return False at 199
         THEN [unchanged EXCEPT !.conn = RollbackConn(store_conn)]
    ELSE IF rows = <<>> THEN [unchanged EXCEPT !.ret = TRUE]
    ELSE IF store_conn.txn
         \* BEGIN inside a transaction raises
         THEN [unchanged EXCEPT !.conn = RollbackConn(store_conn)]
    ELSE IF fault \in 1..Len(rows)
         THEN [unchanged EXCEPT !.conn =
                 RollbackConn([txn |-> TRUE, pending |-> Prefix(rows, fault - 1)])]
    ELSE IF fault = Len(rows) + 1
         THEN [unchanged EXCEPT !.conn =
                 RollbackConn([txn |-> TRUE, pending |-> rows])]
    ELSE [ret |-> TRUE, readings |-> store_readings \o rows, conn |-> ClosedConn]

InsertBatch ==
    /\ store_last.op = "none"
    /\ \E tbl \in BOOLEAN, fault \in 0..(Len(store_arg) + 1) :
        LET out == InsertBatchOutcome(store_arg, tbl, fault) IN
        /\ store_readings' = out.readings
        /\ store_conn' = out.conn
        /\ store_last' = [op |-> "batch", tbl |-> tbl, fault |-> fault,
                          ret |-> out.ret, before |-> VisibleRows]
    /\ UNCHANGED <<store_arg, otherThanStore>>

InitStore ==
    /\ store_readings = <<>>
    /\ store_conn = ClosedConn
    /\ store_arg = <<>>
    /\ store_last = NoCall

NextStore == AddPayload \/ InsertSingle \/ InsertBatch \/ NextCall

\* get_last_readings, 325-346. The id of a row is its position in the table;
\* the ts of a stored row has passed __is_valid_iso_ts, so the texts compare
\* as their minutes do.
TsLess(a, b) == a.minute < b.minute

\* ORDER BY ts DESC, id DESC: row i comes before row j
Newer(rs, i, j) == TsLess(rs[j].ts, rs[i].ts) \/ (rs[i].ts = rs[j].ts /\ i > j)

RECURSIVE OrderDesc(_, _)
OrderDesc(rs, ids) ==
    IF ids = {} THEN <<>>
    ELSE LET m == CHOOSE i \in ids : \A j \in ids \ {i} : Newer(rs, i, j)
         IN <<m>> \o OrderDesc(rs, ids \ {m})

\* ORDER BY ts ASC, id ASC
RECURSIVE OrderAsc(_, _)
OrderAsc(rs, ids) ==
    IF ids = {} THEN <<>>
    ELSE LET m == CHOOSE i \in ids : \A j \in ids \ {i} : Newer(rs, j, i)
         IN <<m>> \o OrderAsc(rs, ids \ {m})

\* LIMIT n, n >= 0
Limit(sq, n) == SubSeq(sq, 1, IF n < Len(sq) THEN n ELSE Len(sq))

IdsOf(sq) == {sq[k] : k \in 1..Len(sq)}

\* 339-344
NewestFirst(rs, n) == Limit(OrderDesc(rs, 1..Len(rs)), n)

\* 329-337: the n newest rows, then ordered ascending
OldestFirstOfTable(rs, n) == Limit(OrderAsc(rs, 1..Len(rs)), n)
OldestFirst(rs, n) == OrderAsc(rs, IdsOf(NewestFirst(rs, n)))

\* The ids of the rows returned, in the order returned.
get_last_readings(rs, n, oldest_first) ==
    IF oldest_first THEN OldestFirst(rs, n) ELSE NewestFirst(rs, n)

\* PlantDBWrapper.__init__, 16-37, on a database file that exists, between
\* two calls: when the schema of the file differs from that of the schema
\* file (__schemas_match, 89-103) the file is renamed as a backup and an
\* empty database is created in its place. The new wrapper has no connection
\* yet.
Construct ==
    /\ store_last.op = "none"
    /\ store_arg = <<>>
    /\ \E schemas_match \in BOOLEAN :
         /\ store_readings' = IF schemas_match THEN store_readings ELSE <<>>
         /\ probes' = IF schemas_match THEN probes ELSE {}
         /\ probe_calibrations' =
                IF schemas_match THEN probe_calibrations ELSE <<>>
    /\ store_conn' = ClosedConn
    /\ UNCHANGED <<store_arg, store_last, wlock, tx, th>>
    /\ UNCHANGED <<dbVars, ingVars, legacyVars, rollupVars, decodeVars, orchVars,
                   openVars, bucketVars>>

\* The store over the life of its database file: calls and constructions.
NextStoreOpen == NextStore \/ Construct

\* ------------------------------------------------------------------------
\* The wall clock
\* ------------------------------------------------------------------------
SecPerMin == 60 * 1
SecPerHour == 60 * SecPerMin
\* The clock of the model advances in steps of four minutes.
ClockStep == 4 * SecPerMin

\* Time passes.
Tick ==
    /\ now + ClockStep <= MaxTicks * ClockStep
    /\ now' = now + ClockStep
    /\ UNCHANGED <<readings, bad_rows, ingest_state, committed>>
    /\ UNCHANGED <<bucketVars, openVars, orchVars, decodeVars, calVars, storeVars, ingVars, legacyVars, rollupVars>>

\* ------------------------------------------------------------------------
\* serial_ingestor.py: the ingestion loop
\* ------------------------------------------------------------------------
Plants == {1, 2}
Seqs == {5, 6}

\* A JSON value: [t, v] with t the Python type json.loads gives it.
JNull == [t |-> "NoneType", v |-> 0]
JInt(n) == [t |-> "int", v |-> n]
JFloat(n) == [t |-> "float", v |-> n]
JStr == [t |-> "str", v |-> 0]
\* JSON true: a Python bool, which is an instance of int with value 1
JTrue == [t |-> "bool", v |-> 1]

\* isinstance(value, typ), 112: bool is a subclass of int
IsInstance(j, types) == j.t \in types \/ (j.t = "bool" /\ "int" \in types)

\* EXPECTED_KEYS, 32-41: the types isinstance accepts for each key
EXPECTED_KEYS ==
    [plant_id |-> {"int"}, seq |-> {"int"},
     lux |-> {"int", "float", "NoneType"}, rh |-> {"int", "float", "NoneType"},
     temp |-> {"int", "float", "NoneType"}, moisture_raw |-> {"int"},
     moisture_pct |-> {"int", "float"}, err |-> {"str"}]

\* validate_payload, 107-116: every expected key present with an accepted
\* type (the None escape at 113 applies only to tuples that list NoneType).
validate_payload(obj) ==
    \A k \in DOMAIN EXPECTED_KEYS :
        /\ k \in DOMAIN obj
        /\ IsInstance(obj[k], EXPECTED_KEYS[k])

\* A line off the serial port: nothing (the read timed out), bytes that
\* strip() reduces to nothing (a newline, spaces), text that is no JSON
\* object, or a JSON object.
EmptyLine == [kind |-> "empty", obj |-> <<>>]
BlankLine == [kind |-> "blank", obj |-> <<>>]
GarbageLine == [kind |-> "garbage", obj |-> <<>>]
RecordLine(p, q, rh) ==
    [kind |-> "json",
     obj |-> [plant_id |-> JInt(p), seq |-> JInt(q), lux |-> JNull, rh |-> JInt(rh),
              temp |-> JFloat(21), moisture_raw |-> JInt(320),
              moisture_pct |-> JFloat(50), err |-> JStr]]
\* an object without the err key
ShortLine ==
    [kind |-> "json",
     obj |-> [plant_id |-> JInt(1), seq |-> JInt(5), lux |-> JNull, rh |-> JInt(50),
              temp |-> JFloat(21), moisture_raw |-> JInt(320),
              moisture_pct |-> JFloat(50)]]

RhValues == {50}
Lines ==
    {EmptyLine, BlankLine, GarbageLine, ShortLine}
        \cup {RecordLine(p, q, rh) : p \in Plants, q \in Seqs, rh \in RhValues}

\* 233-239: `not chunk`, or `not line` after decode and strip
IsNoRecordTimeoutOnly(line) == line.kind = "empty"
IsNoRecord(line) == line.kind \in {"empty", "blank"}

\* json.loads + validate_payload, 249-252: whether they raise
ParseRaises(line) == line.kind # "json" \/ ~validate_payload(line.obj)

OptOf(j) == IF j.t = "NoneType" THEN None ELSE Some(j.v)

\* row_from_payload, 118-132 (raw_json, the line itself, is left out)
row_from_payload(obj) ==
    [ts_utc |-> now, plant_id |-> obj.plant_id.v, seq |-> OptOf(obj.seq),
     lux |-> OptOf(obj.lux), rh |-> OptOf(obj.rh), temp |-> OptOf(obj.temp),
     moisture_raw |-> obj.moisture_raw.v, moisture_pct |-> OptOf(obj.moisture_pct),
     err |-> ""]

\* the duplicate filter's test, 264-266
IsDuplicate(prev, q) == ~IsNone(prev) /\ q = Val(prev)

\* conn.commit(): everything the connection has written becomes durable
CommitAll(rs, bad, ist) ==
    [readings |-> Len(rs), bad_rows |-> Len(bad), ingest_state |-> ist]

\* What the INSERT into readings and persist_last_seq do (272-285). The
\* constraints of the table come from the schema file, which the sources do
\* not hold, so every outcome sqlite3 has is possible for every row:
\*   "ok"         the row is inserted and the cursor row written
\*   "check"      IntegrityError, CHECK constraint failed
\*   "integrity"  another IntegrityError (UNIQUE, NOT NULL)
\*   "error"      any other exception of the INSERT (locked, disk full, I/O)
\*   "interrupt"  KeyboardInterrupt after upsert_reading (274) has returned
\*                and before persist_last_seq (275) has run
InsertOutcomes == {"ok", "check", "integrity", "error", "interrupt"}

\* TIME_COMMIT_MAX_SEC, 30
TIME_COMMIT_MAX_SEC == 2
\* SPOOL_ROTATE_BYTES (28) and SPOOL_KEEP_FILES (29), scaled to the model:
\* a line has size 1
SPOOL_ROTATE_BYTES == 1
SPOOL_KEEP_FILES == 1

\* The state of the ingestor and of its files and connection, as a record,
\* so that the blocks of main can be written as functions of it.
Cur ==
    [readings |-> readings, bad_rows |-> bad_rows, ingest_state |-> ingest_state,
     committed |-> committed, ing_pc |-> ing_pc,
     last_seq_by_plant |-> last_seq_by_plant, dropped_dups |-> dropped_dups,
     rows_since_commit |-> rows_since_commit, spool |-> spool,
     spool_offset |-> spool_offset, first_pending |-> first_pending,
     last_commit_time |-> last_commit_time]

\* The connection is closed with an open transaction, or the process dies:
\* what was not committed is gone.
Uncommit(s) ==
    [s EXCEPT !.readings = SubSeq(@, 1, s.committed.readings),
              !.bad_rows = SubSeq(@, 1, s.committed.bad_rows),
              !.ingest_state = s.committed.ingest_state]

\* first_pending after line idx of the segment was left without a committed
\* effect (idx = 0: no such line)
Pending(s, idx) == IF s.first_pending # 0 THEN s.first_pending ELSE idx

\* finally, 308-327: commit (an exception is passed over), close, fsync
\* the spool and save its offset. noeffect is the index of a spooled line
\* that was left without any store effect, or 0.
Finally(s, commit_ok, noeffect) ==
    LET c == IF commit_ok
             THEN [s EXCEPT !.committed = CommitAll(s.readings, s.bad_rows,
                                                    s.ingest_state),
                            !.first_pending = noeffect]
             ELSE [Uncommit(s) EXCEPT !.first_pending = Pending(s, noeffect)]
    IN [c EXCEPT !.ing_pc = "exited", !.spool_offset = Len(s.spool)]

\* 253-259 and 278-283: the dead-letter INSERT and its commit, which also
\* commits every row the connection has pending. When the INSERT raises,
\* nothing catches it: the loop is left through finally.
DeadLetter(s, line, reason, dl_ok, fin_ok, idx) ==
    IF dl_ok
    THEN LET b == Append(s.bad_rows, [line |-> line, error |-> reason])
         IN [s EXCEPT !.bad_rows = b,
                      !.committed = CommitAll(s.readings, b, s.ingest_state),
                      !.first_pending = 0]
    ELSE Finally(s, fin_ok, idx)

\* The steps of the loop body that a line goes through, in the order of the
\* code: spool (242-246), json.loads (250), validate_payload (251), the
\* duplicate filter (262-269), the insert (272-275).
LoopStepsSpoolBeforeInsert(line, dup) ==
    IF line.kind # "json" THEN <<"decode">>
    ELSE IF ~validate_payload(line.obj) THEN <<"decode", "validate">>
    ELSE IF dup THEN <<"decode", "validate", "dedup">>
    ELSE <<"decode", "validate", "dedup", "spool", "insert">>
LoopSteps(line, dup) ==
    IF line.kind # "json" THEN <<"spool", "decode">>
    ELSE IF ~validate_payload(line.obj) THEN <<"spool", "decode", "validate">>
    ELSE IF dup THEN <<"spool", "decode", "validate", "dedup">>
    ELSE <<"spool", "decode", "validate", "dedup", "insert">>

\* 296-297: whether the commit policy asks for a commit
CommitDueLate(rows, every, t, last) ==
    rows > every \/ (t - last) >= TIME_COMMIT_MAX_SEC
CommitDue(rows, every, t, last) ==
    rows >= every \/ (t - last) >= TIME_COMMIT_MAX_SEC

\* The loop body, 237-297, for a non-empty line, up to the decision to
\* commit. spool_ok: the write to the spool did not raise (243-246);
\* outcome: what the INSERT did; dl_ok: the dead-letter INSERT did not raise;
\* fin_ok: the commit in finally did not raise. The result is the new state
\* and the outcome of the line.
Body(s0, line, spool_ok, outcome, dl_ok, fin_ok) ==
    LET s == [s0 EXCEPT !.spool = IF spool_ok THEN Append(@, line) ELSE @]
        idx == IF spool_ok THEN Len(s.spool) ELSE 0
    IN
    IF ParseRaises(line)
    THEN [st |-> DeadLetter(s, line, "parse", dl_ok, fin_ok, idx),
          outcome |-> IF dl_ok THEN "bad" ELSE "bad_error"]
    ELSE
    LET plant == line.obj.plant_id.v
        q == line.obj.seq.v
        prev == s.last_seq_by_plant[plant]
    IN
    IF IsDuplicate(prev, q)
    THEN [st |-> [s EXCEPT !.dropped_dups = @ + 1], outcome |-> "dup"]
    ELSE
    LET m == [s EXCEPT !.last_seq_by_plant[plant] = Some(q)]          \* 269
    IN
    CASE outcome = "ok" ->
         LET r == [m EXCEPT !.readings = Append(@, row_from_payload(line.obj)),
                            !.ingest_state[plant] = Some(q),
                            !.rows_since_commit = @ + 1,
                            !.first_pending = Pending(m, idx)]
         IN [st |-> [r EXCEPT !.ing_pc =
                        IF CommitDue(r.rows_since_commit, flush_every, now,
                                     r.last_commit_time)
                        THEN "commit" ELSE "loop"],
             outcome |-> "ok"]
      [] outcome = "check" ->
         [st |-> DeadLetter(m, line, "CHECK_FAIL", dl_ok, fin_ok, idx),
          outcome |-> IF dl_ok THEN "check" ELSE "check_error"]
      [] outcome = "integrity" ->
         [st |-> m, outcome |-> "integrity"]
      [] outcome = "error" ->
         [st |-> Finally(m, fin_ok, idx), outcome |-> "error"]
      [] outcome = "interrupt" ->
         LET r == [m EXCEPT !.readings = Append(@, row_from_payload(line.obj)),
                            !.first_pending = Pending(m, idx)]
         IN [st |-> Finally(r, fin_ok, 0), outcome |-> "interrupt"]

\* The assignment of a state record to the variables.
Becomes(s) ==
    /\ readings' = s.readings
    /\ bad_rows' = s.bad_rows
    /\ ingest_state' = s.ingest_state
    /\ committed' = s.committed
    /\ ing_pc' = s.ing_pc
    /\ last_seq_by_plant' = s.last_seq_by_plant
    /\ dropped_dups' = s.dropped_dups
    /\ rows_since_commit' = s.rows_since_commit
    /\ spool' = s.spool
    /\ spool_offset' = s.spool_offset
    /\ first_pending' = s.first_pending
    /\ last_commit_time' = s.last_commit_time

Bit(b) == IF b THEN 1 ELSE 0

\* One iteration of the read loop, 232-297, for a line that is read.
IngestLine ==
    /\ ing_pc = "loop"
    /\ lines_read < MaxLines
    /\ lines_read' = lines_read + 1
    /\ \E line \in Lines :
        IF IsNoRecord(line)
        THEN \* 234-239
             /\ Becomes(Cur)
             /\ UNCHANGED faults
             /\ ing_last' = [line |-> line, outcome |-> "empty", steps |-> <<>>,
                             at |-> now]
        ELSE \E spool_ok \in BOOLEAN, outcome \in InsertOutcomes,
                dl_ok \in BOOLEAN, fin_ok \in BOOLEAN :
             LET b == Body(Cur, line, spool_ok, outcome, dl_ok, fin_ok)
                 dup == /\ ~ParseRaises(line)
                        /\ IsDuplicate(last_seq_by_plant[line.obj.plant_id.v],
                                       line.obj.seq.v)
                 \* the operations this line gets to, and how many fail
                 inserts == ~ParseRaises(line) /\ ~dup
                 deadletters == ParseRaises(line) \/ (inserts /\ outcome = "check")
                 leaves == \/ deadletters /\ ~dl_ok
                           \/ inserts /\ outcome \in {"error", "interrupt"}
                 failed == Bit(~spool_ok) + Bit(outcome # "ok")
                           + Bit(~dl_ok) + Bit(~fin_ok)
             IN /\ inserts \/ outcome = "ok"
                /\ deadletters \/ dl_ok
                /\ leaves \/ fin_ok
                /\ faults + failed <= MaxFaults
                /\ faults' = faults + failed
                /\ Becomes(b.st)
                /\ ing_last' = [line |-> line, outcome |-> b.outcome,
                                steps |-> LoopSteps(line, dup), at |-> now]
    /\ UNCHANGED <<now, flush_every, retired, restarts, rot_last>>
    /\ UNCHANGED <<bucketVars, openVars, orchVars, decodeVars, calVars, storeVars, legacyVars, rollupVars>>

\* 298-300: conn.commit() of the commit policy. When it raises, the loop is
\* left through finally.
DoCommit ==
    /\ ing_pc = "commit"
    /\ \E commit_ok \in BOOLEAN, fin_ok \in BOOLEAN :
        /\ commit_ok => fin_ok
        /\ faults + Bit(~commit_ok) + Bit(~fin_ok) <= MaxFaults
        /\ faults' = faults + Bit(~commit_ok) + Bit(~fin_ok)
        /\ IF commit_ok
           THEN Becomes([Cur EXCEPT
                 !.committed = CommitAll(readings, bad_rows, ingest_state),
                 !.last_commit_time = now,
                 !.rows_since_commit = 0,
                 !.first_pending = 0,
                 !.ing_pc = "sync"])
           ELSE Becomes(Finally(Cur, fin_ok, 0))
    /\ UNCHANGED <<now, lines_read, flush_every, retired, restarts, ing_last,
                   rot_last>>
    /\ UNCHANGED <<bucketVars, openVars, orchVars, decodeVars, calVars, storeVars, legacyVars, rollupVars>>

\* 301-303: fsync_spool and save_spool_offset (152-160): the offset file
\* takes fp.tell(), the size of the active segment.
SyncSpool ==
    /\ ing_pc = "sync"
    /\ Becomes([Cur EXCEPT !.spool_offset = Len(spool), !.ing_pc = "rotate"])
    /\ UNCHANGED faults
    /\ UNCHANGED <<now, lines_read, flush_every, retired, restarts, ing_last,
                   rot_last>>
    /\ UNCHANGED <<bucketVars, openVars, orchVars, decodeVars, calVars, storeVars, legacyVars, rollupVars>>

\* A retired segment: its name is the time of the rotation to the second
\* (185-186), its mtime the time of the last write to it.
SegmentFile(name, lines, mtime) == [name |-> name, lines |-> lines, mtime |-> mtime]

\* spool_path.rename(rotated), 188: a file that has the name is replaced
Rename(files, f) == {g \in files : g.name # f.name} \cup {f}

\* rotate_spool_if_needed, 174-190: below the threshold nothing happens;
\* else the active segment is closed and renamed.
RotateRename ==
    /\ ing_pc = "rotate"
    /\ IF Len(spool) < SPOOL_ROTATE_BYTES
       THEN /\ Becomes([Cur EXCEPT !.ing_pc = "loop"])
            /\ UNCHANGED <<retired, rot_last>>
       ELSE /\ Becomes([Cur EXCEPT !.spool = <<>>, !.first_pending = 0,
                                   !.ing_pc = "rotate_open"])
            /\ retired' = Rename(retired, SegmentFile(now, spool, ing_last.at))
            /\ rot_last' = [done |-> FALSE,
                            replaced |-> \E g \in retired : g.name = now,
                            name |-> now]
    /\ UNCHANGED <<now, lines_read, flush_every, restarts, ing_last, faults>>
    /\ UNCHANGED <<bucketVars, openVars, orchVars, decodeVars, calVars, storeVars, legacyVars, rollupVars>>

\* 191-196: the files that survive the pruning: the SPOOL_KEEP_FILES newest
\* by mtime (equal mtimes in either order); an unlink that raises is passed
\* over and its file stays.
KeptSets(files) ==
    {k \in SUBSET files :
        /\ Cardinality(k) = IF Cardinality(files) < SPOOL_KEEP_FILES
                            THEN Cardinality(files) ELSE SPOOL_KEEP_FILES
        /\ \A f \in k : \A g \in files \ k : f.mtime >= g.mtime}

\* rotate_spool_if_needed, 191-199: prune, open a new active segment and
\* save its offset.
RotateOpen ==
    /\ ing_pc = "rotate_open"
    /\ \E kept \in KeptSets(retired), unlink_ok \in BOOLEAN :
        /\ unlink_ok \/ kept # retired
        /\ faults + Bit(~unlink_ok) <= MaxFaults
        /\ faults' = faults + Bit(~unlink_ok)
        /\ retired' = IF unlink_ok THEN kept ELSE retired
    /\ Becomes([Cur EXCEPT !.spool_offset = 0, !.ing_pc = "loop"])
    /\ rot_last' = [rot_last EXCEPT !.done = TRUE]
    /\ UNCHANGED <<now, lines_read, flush_every, restarts, ing_last>>
    /\ UNCHANGED <<bucketVars, openVars, orchVars, decodeVars, calVars, storeVars, legacyVars, rollupVars>>

\* Ctrl-C while the loop waits in readline (233): 306-327
Interrupt ==
    /\ ing_pc = "loop"
    /\ faults < MaxFaults
    /\ faults' = faults + 1
    /\ \E fin_ok \in BOOLEAN : Becomes(Finally(Cur, fin_ok, 0))
    /\ UNCHANGED <<now, lines_read, flush_every, retired, restarts, ing_last,
                   rot_last>>
    /\ UNCHANGED <<bucketVars, openVars, orchVars, decodeVars, calVars, storeVars, legacyVars, rollupVars>>

\* The process is killed, at any point of the loop: the open transaction is
\* lost, the files stay as they are.
Crash ==
    /\ ing_pc \notin {"crashed", "exited"}
    /\ faults < MaxFaults
    /\ faults' = faults + 1
    /\ Becomes([Uncommit(Cur) EXCEPT !.ing_pc = "crashed"])
    /\ UNCHANGED <<now, lines_read, flush_every, retired, restarts, ing_last,
                   rot_last>>
    /\ UNCHANGED <<bucketVars, openVars, orchVars, decodeVars, calVars, storeVars, legacyVars, rollupVars>>

\* load_last_seq, 88-93
load_last_seq(state) == state

\* main is started again, 201-229: the spool is opened for append (and
\* created when it is missing), the saved offset is read and not used, the
\* dedup map is loaded from ingest_state, the counters start at zero.
Restart ==
    /\ ing_pc \in {"crashed", "exited"}
    /\ restarts < MaxRestarts
    /\ restarts' = restarts + 1
    /\ Becomes([Cur EXCEPT !.ing_pc = "loop",
                           !.last_seq_by_plant = load_last_seq(ingest_state),
                           !.dropped_dups = 0,
                           !.rows_since_commit = 0,
                           !.last_commit_time = now])
    /\ ing_last' = [line |-> EmptyLine, outcome |-> "restarted", steps |-> <<>>,
                    at |-> now]
    /\ UNCHANGED <<now, lines_read, flush_every, retired, rot_last, faults>>
    /\ UNCHANGED <<bucketVars, openVars, orchVars, decodeVars, calVars, storeVars, legacyVars, rollupVars>>

NoSeq == [p \in Plants |-> None]

InitDb ==
    /\ now = 0
    /\ readings = <<>>
    /\ bad_rows = <<>>
    /\ ingest_state = NoSeq
    /\ committed = CommitAll(<<>>, <<>>, NoSeq)

NoLine == [line |-> EmptyLine, outcome |-> "none", steps |-> <<>>, at |-> 0]
NoRotation == [done |-> FALSE, replaced |-> FALSE, name |-> 0]

\* 215-229: the state when the loop is entered on a new database
InitLoop ==
    /\ ing_pc = "loop"
    /\ last_seq_by_plant = NoSeq
    /\ dropped_dups = 0
    /\ rows_since_commit = 0
    /\ spool = <<>>
    /\ spool_offset = 0
    /\ lines_read = 0
    /\ last_commit_time = 0
    /\ retired = {}
    /\ restarts = 0
    /\ first_pending = 0
    /\ ing_last = NoLine
    /\ rot_last = NoRotation
    /\ faults = 0

\* --flush-every left at its default.
InitIngest ==
    /\ InitLoop
    /\ flush_every = FlushEvery

\* --flush-every given on the command line.
InitIngestArgs ==
    /\ InitLoop
    /\ flush_every \in 1..FlushEvery

\* Time passes while the ingestor runs.
TickIngest ==
    /\ now < MaxIngestTicks * ClockStep
    /\ Tick

\* The read loop on its own: no stop, no restart, the clock standing still.
NextLoop ==
    \/ IngestLine \/ DoCommit \/ SyncSpool \/ RotateRename \/ RotateOpen

NextIngest ==
    \/ NextLoop
    \/ Interrupt \/ Crash \/ Restart \/ TickIngest

\* ------------------------------------------------------------------------
\* serial_ingestor.py: open_serial
\* ------------------------------------------------------------------------
\* --max-retries goes up to MaxRetries.
MaxRetries == 9

\* sleep_s, 65
RetryDelay(attempt) == IF 5 * attempt < 30 THEN 5 * attempt ELSE 30

\* One turn of the while loop, 58-67: serial.Serial returns the port or
\* raises; after a failure the attempt is counted and the error is raised
\* again when the retries are used up, else the loop sleeps and goes on.
OpenAttempt ==
    /\ os_pc = "try"
    /\ os_opens' = os_opens + 1
    /\ \E opened \in BOOLEAN :
        IF opened
        THEN /\ os_pc' = "returned"
             /\ UNCHANGED <<os_attempt, os_delays>>
        ELSE /\ os_attempt' = os_attempt + 1
             /\ IF os_attempt + 1 > os_max_retries
                THEN /\ os_pc' = "raised"
                     /\ UNCHANGED os_delays
                ELSE /\ os_pc' = "try"
                     /\ os_delays' = Append(os_delays, RetryDelay(os_attempt + 1))
    /\ UNCHANGED os_max_retries
    /\ UNCHANGED <<calVars, storeVars, dbVars, ingVars, legacyVars, rollupVars,
                   decodeVars, orchVars, bucketVars>>

\* 57, with --max-retries at its default (52)
InitOpen ==
    /\ os_pc = "try"
    /\ os_max_retries = 0
    /\ os_attempt = 0
    /\ os_opens = 0
    /\ os_delays = <<>>

\* 57, with --max-retries given
InitOpenArgs ==
    /\ os_pc = "try"
    /\ os_max_retries \in 0..MaxRetries
    /\ os_attempt = 0
    /\ os_opens = 0
    /\ os_delays = <<>>

NextOpen == OpenAttempt

\* ------------------------------------------------------------------------
\* serial_ingestor.py: decoding one line, on its own
\* ------------------------------------------------------------------------
\* A key the line does not carry.
Absent == [t |-> "absent", v |-> 0]

\* The JSON object with the given values, without the keys that are Absent;
\* extra is an unknown key.
LineObject(plant_id, seq, lux, moisture_raw, moisture_pct, err, extra) ==
    LET full == [plant_id |-> plant_id, seq |-> seq, lux |-> lux, rh |-> JInt(50),
                 temp |-> JFloat(21), moisture_raw |-> moisture_raw,
                 moisture_pct |-> moisture_pct, err |-> err, firmware |-> extra]
    IN [k \in {x \in DOMAIN full : full[x] # Absent} |-> full[k]]

\* The objects a probe may send.
DecodeLines ==
    {[kind |-> "json", obj |-> LineObject(p, q, l, mr, mp, e, x)] :
        p \in {JInt(1), JStr, JTrue, Absent},
        q \in {JInt(5), JNull},
        l \in {JNull, JFloat(300)},
        mr \in {JInt(320), JFloat(320)},
        mp \in {JFloat(50), JFloat(150), JNull},
        e \in {JStr, JNull},
        x \in {Absent, JStr}}
    \cup {GarbageLine}

NotDecoded == [done |-> FALSE, raised |-> FALSE, row |-> None]

\* 248-252 and 271: json.loads, validate_payload and, when they pass,
\* row_from_payload.
Decode ==
    /\ ~dec_out.done
    /\ dec_out' = [done |-> TRUE,
                   raised |-> ParseRaises(dec_line),
                   row |-> IF ParseRaises(dec_line) THEN None
                           ELSE Some(row_from_payload(dec_line.obj))]
    /\ UNCHANGED <<dec_line, calVars, storeVars, dbVars, ingVars, legacyVars,
                   rollupVars, orchVars, openVars, bucketVars>>

\* No line is being decoded on its own.
InitDecode ==
    /\ dec_line = GarbageLine
    /\ dec_out = NotDecoded

\* A line arrives.
InitDecodeLine ==
    /\ dec_line \in DecodeLines
    /\ dec_out = NotDecoded

NextDecode == Decode

\* ------------------------------------------------------------------------
\* ingest/ingest.py: the legacy ingestion loop
\* ------------------------------------------------------------------------
LegacyObj(q, lux, rh, temp) ==
    [seq |-> JInt(q), lux |-> lux, rh |-> rh, temp |-> temp,
     moisture_raw |-> JInt(320), moisture_pct |-> JFloat(50), err |-> JStr]

LegacyLines ==
    {EmptyLine, GarbageLine,
     \* an object without the lux key
     [kind |-> "json", obj |-> [seq |-> JInt(5), rh |-> JInt(50)]]}
      \cup {[kind |-> "json", obj |-> LegacyObj(5, lux, rh, temp)] :
               lux \in {JInt(300), JInt(-1)},
               rh \in {JInt(50), JInt(150), JNull},
               temp \in {JFloat(21), JFloat(90)}}

LegacyChecked == {"lux", "rh", "temp", "moisture_raw", "moisture_pct"}
LegacyRowKeys == {"seq", "lux", "rh", "temp", "moisture_raw", "moisture_pct", "err"}

IsNumber(j) == j.t \in {"int", "float"}

\* ingest.py 49-53: a number outside the fixed range of its key becomes None
Sanitize(k, j) ==
    IF ~IsNumber(j) THEN j
    ELSE IF k = "rh" /\ ~(0 <= j.v /\ j.v <= 100) THEN JNull
    ELSE IF k = "temp" /\ ~(-20 <= j.v /\ j.v <= 70) THEN JNull
    ELSE IF k = "lux" /\ j.v < 0 THEN JNull
    ELSE j

\* quality, 15-21 (err is the empty string on these lines)
quality(data) ==
    IF \E k \in DOMAIN data \ {"plant_id", "seq", "err"} : data[k].t = "NoneType"
    THEN "bad" ELSE "ok"

\* insert_row, 23-30
LegacyRow(data) ==
    [seq |-> OptOf(data.seq), lux |-> OptOf(data.lux), rh |-> OptOf(data.rh),
     temp |-> OptOf(data.temp), moisture_raw |-> OptOf(data.moisture_raw),
     moisture_pct |-> OptOf(data.moisture_pct), quality |-> quality(data),
     err |-> ""]

\* One iteration of the loop, 42-62.
LegacyIngestLine ==
    /\ Len(reading) < MaxLines
    /\ \E line \in LegacyLines :
        /\ IF line.kind = "empty"
           THEN UNCHANGED <<reading, drops>>                       \* 44-45
           ELSE IF line.kind = "garbage"
           THEN /\ drops' = (drops + 1) % 10                       \* 56-59
                /\ UNCHANGED reading
           ELSE IF ~(LegacyChecked \subseteq DOMAIN line.obj)
                   \/ ~(LegacyRowKeys \subseteq DOMAIN line.obj)
           THEN UNCHANGED <<reading, drops>>                       \* KeyError, 60-62
           ELSE LET data == [k \in DOMAIN line.obj |->
                               IF k \in LegacyChecked
                               THEN Sanitize(k, line.obj[k]) ELSE line.obj[k]]
                IN /\ reading' = Append(reading, LegacyRow(data))  \* 55
                   /\ UNCHANGED drops
        /\ legacy_last' = [line |-> line, added |-> Len(reading') - Len(reading)]
    /\ UNCHANGED <<bucketVars, openVars, orchVars, decodeVars, calVars, storeVars, dbVars, ingVars, rollupVars>>

InitLegacy ==
    /\ reading = <<>>
    /\ drops = 0
    /\ legacy_last = [line |-> EmptyLine, added |-> 0]

NextLegacy == LegacyIngestLine

\* ------------------------------------------------------------------------
\* rollup_job.py: the 5-minute rollup worker
\* ------------------------------------------------------------------------
\* FIVE_MIN, rollup_job.py 10
FIVE_MIN == 5 * SecPerMin

\* --backfill-minutes (162): a multiple of five and one that is not
Backfills == {5, 7}

\* The minute field of a timestamp: dt.minute, and substr(ts_utc,15,2)
MinuteOf(t) == (t \div SecPerMin) % 60

\* floor_to_5m, 12-14: minute floored to a multiple of 5, seconds dropped
floor_to_5m(t) ==
    (t \div SecPerHour) * SecPerHour + (MinuteOf(t) - (MinuteOf(t) % 5)) * SecPerMin

\* bucket_expr, 32-36: the text up to the hour, the floored minute, ":00+00:00"
bucket_expr(ts) ==
    (ts \div SecPerHour) * SecPerHour + (MinuteOf(ts) - (MinuteOf(ts) % 5)) * SecPerMin

\* The rows the worker's connection reads: the committed ones.
CommittedReadings == SubSeq(readings, 1, committed.readings)

\* base, 39-46: the indices of the rows with lower <= ts_utc < cutoff
BaseOpenEnded(rs, lower, cutoff) ==
    {i \in 1..Len(rs) : rs[i].ts_utc >= lower}
Base(rs, lower, cutoff) ==
    {i \in 1..Len(rs) : rs[i].ts_utc >= lower /\ rs[i].ts_utc < cutoff}

RECURSIVE SumOf(_, _)
SumOf(rs, idx) ==
    IF idx = {} THEN 0
    ELSE LET i == CHOOSE x \in idx : TRUE IN Val(rs[i].lux) + SumOf(rs, idx \ {i})

\* AVG, MIN, MAX of lux over a group (53-55): NULLs are skipped, and the
\* result is NULL when every value is NULL. AVG is kept as <<sum, count>>.
AvgLux(rs, g) ==
    LET nn == {i \in g : ~IsNone(rs[i].lux)}
    IN IF nn = {} THEN None ELSE Some(<<SumOf(rs, nn), Cardinality(nn)>>)
MinLux(rs, g) ==
    LET nn == {i \in g : ~IsNone(rs[i].lux)}
    IN IF nn = {} THEN None
       ELSE Some(Val(rs[CHOOSE i \in nn : \A j \in nn : Val(rs[i].lux) <= Val(rs[j].lux)].lux))
MaxLux(rs, g) ==
    LET nn == {i \in g : ~IsNone(rs[i].lux)}
    IN IF nn = {} THEN None
       ELSE Some(Val(rs[CHOOSE i \in nn : \A j \in nn : Val(rs[i].lux) >= Val(rs[j].lux)].lux))

\* agg, 47-76: one row per (plant_id, bucket_start_utc) of base. Of the
\* metric columns lux stands for all five: each is aggregated by the same
\* three expressions.
Agg(rs, lower, cutoff, at) ==
    LET base == Base(rs, lower, cutoff)
        keys == {<<rs[i].plant_id, bucket_expr(rs[i].ts_utc)>> : i \in base}
        group(k) == {i \in base : rs[i].plant_id = k[1]
                                     /\ bucket_expr(rs[i].ts_utc) = k[2]}
    IN {[plant_id |-> k[1], bucket_start_utc |-> k[2],
         row_count |-> Cardinality(group(k)),
         lux_avg |-> AvgLux(rs, group(k)),
         lux_min |-> MinLux(rs, group(k)),
         lux_max |-> MaxLux(rs, group(k)),
         err_count |-> Cardinality({i \in group(k) : rs[i].err # ""}),
         updated_at |-> at] : k \in keys}

KeyOf(b) == <<b.plant_id, b.bucket_start_utc>>

\* INSERT ... ON CONFLICT(plant_id, bucket_start_utc) DO UPDATE, 77-114
InsertKeepingOld(table, rows) == table \cup rows
UpsertAdding(table, rows) ==
    {b \in table : \A r \in rows : KeyOf(r) # KeyOf(b)}
    \cup {IF \E b \in table : KeyOf(b) = KeyOf(r)
          THEN [r EXCEPT !.row_count =
                   @ + (CHOOSE b \in table : KeyOf(b) = KeyOf(r)).row_count]
          ELSE r : r \in rows}
Upsert(table, rows) ==
    {b \in table : \A r \in rows : KeyOf(r) # KeyOf(b)} \cup rows

\* conn.rollback(), 132-134: the table as it was before the cycle
RollbackSkipped5m(before, after) == after
Rollback5m(before, after) == before

\* run_forever, 147-151: an exception of run_once is printed, the loop goes on
AfterFailedCycleExit == "exited"
AfterFailedCycle == "sleep"

NoCycle == [result |-> "none", lower |-> 0, cutoff |-> 0, seen |-> 0,
            repeat |-> FALSE, late |-> FALSE]

\* What can go wrong in a cycle: nothing; BEGIN (118) or the INSERT (120)
\* raises, with nothing written; commit (131) raises after the INSERT ran.
\* The rollup_meta table exists, so the UPDATE at 124-127 succeeds.
CycleFaults == {"none", "execute", "commit"}

\* One cycle of run_forever: run_once (19-136) and the handler at 150-151.
RunCycle ==
    /\ rollup_pc = "sleep"
    /\ \E backfill_minutes \in Backfills, fault \in CycleFaults :
        LET open_bucket_start == floor_to_5m(now)
            cutoff == open_bucket_start
            lower == open_bucket_start - backfill_minutes * SecPerMin
            rs == CommittedReadings
            agg == Agg(rs, lower, cutoff, now)
            after == Upsert(readings_5m, agg)
            failed == fault \in {"execute", "commit"}
        IN
        /\ readings_5m' =
              IF fault = "execute" THEN readings_5m
              ELSE IF fault = "commit" THEN Rollback5m(readings_5m, after)
              ELSE after
        /\ rollup_meta' =
              IF failed THEN rollup_meta
              ELSE [last_run_utc |-> now, last_cutoff_utc |-> cutoff]
        /\ rollup_pc' = IF failed THEN AfterFailedCycle ELSE "sleep"
        /\ rollup_last' =
              [result |-> IF failed THEN "failed" ELSE "ok",
               lower |-> lower, cutoff |-> cutoff, seen |-> Len(rs),
               repeat |-> /\ rollup_last.result = "ok"
                          /\ rollup_last.lower = lower
                          /\ rollup_last.cutoff = cutoff
                          /\ rollup_last.seen = Len(rs),
               late |-> /\ rollup_last.result = "ok"
                        /\ \E i \in Base(rs, lower, cutoff) :
                            /\ i > rollup_last.seen
                            /\ \E b \in readings_5m :
                                KeyOf(b) = <<rs[i].plant_id,
                                             bucket_expr(rs[i].ts_utc)>>]
    /\ UNCHANGED <<bucketVars, openVars, orchVars, decodeVars, calVars, storeVars, dbVars, ingVars, legacyVars>>

LuxAndErr == {<<Some(10), "">>, <<None, "E">>}

\* The ingestor commits a reading. Its ts_utc is the time the line was read
\* (row_from_payload, serial_ingestor.py 120), which the commit can follow by
\* a clock step.
ReadingCommitted ==
    /\ Len(readings) < MaxReadings
    /\ \E p \in Plants, ts \in {now, now - ClockStep}, le \in LuxAndErr :
        /\ ts >= 0
        /\ readings' = Append(readings,
              [ts_utc |-> ts, plant_id |-> p, seq |-> None, lux |-> le[1],
               rh |-> None, temp |-> None, moisture_raw |-> 320,
               moisture_pct |-> None, err |-> le[2]])
        /\ committed' = [committed EXCEPT !.readings = Len(readings')]
    /\ UNCHANGED <<now, bad_rows, ingest_state>>
    /\ UNCHANGED <<bucketVars, openVars, orchVars, decodeVars, calVars, storeVars, ingVars, legacyVars, rollupVars>>

InitRollup ==
    /\ readings_5m = {}
    /\ rollup_meta = [last_run_utc |-> 0, last_cutoff_utc |-> 0]
    /\ rollup_pc = "sleep"
    /\ rollup_last = NoCycle

NextRollup == Tick \/ ReadingCommitted \/ RunCycle

\* ------------------------------------------------------------------------
\* rollup_job.py: the bucket key as text
\* ------------------------------------------------------------------------
\* A timestamp as the ingestor stores it, isoformat(timespec="seconds") of a
\* UTC time (serial_ingestor.py 120): "YYYY-MM-DDTHH:" (characters 1-14,
\* kept as the number of the hour), two digits of minutes (15-16), ":",
\* two digits of seconds, "+00:00".
TwoDigits(n) == <<n \div 10, n % 10>>
IsoText(t) ==
    [hour |-> t \div SecPerHour, mm |-> TwoDigits(MinuteOf(t)),
     ss |-> TwoDigits(t % SecPerMin), tz |-> "+00:00"]

\* iso_utc, 16-17
iso_utc(t) == IsoText(t)

\* CAST(substr(ts_utc,15,2) AS INTEGER), 34
CastInt(digits) == 10 * digits[1] + digits[2]

\* minute - (minute % 5), 34
FloorMinuteKept(m) == m
FloorMinute(m) == m - (m % 5)

\* bucket_expr, 32-36, on the text: substr(ts_utc,1,14), printf('%02d', ...)
\* of the floored minute, ':00+00:00'
bucket_start_utc(ts) ==
    [hour |-> ts.hour, mm |-> TwoDigits(FloorMinute(CastInt(ts.mm))),
     ss |-> <<0, 0>>, tz |-> "+00:00"]

\* The order of two such texts, character by character (the comparisons
\* of the WHERE clause, 45)
TextKey(ts) == <<ts.hour, ts.mm[1], ts.mm[2], ts.ss[1], ts.ss[2]>>
RECURSIVE LexLess(_, _, _)
LexLess(a, b, i) ==
    IF i > Len(a) THEN FALSE
    ELSE IF a[i] # b[i] THEN a[i] < b[i]
    ELSE LexLess(a, b, i + 1)
TextLess(a, b) == LexLess(TextKey(a), TextKey(b), 1)

\* The time a text of this format stands for.
TimeOf(ts) == ts.hour * SecPerHour + CastInt(ts.mm) * SecPerMin + CastInt(ts.ss)

BucketTimes ==
    {h * SecPerHour + m * SecPerMin + sec :
        h \in {0, 1}, m \in {0, 4, 5, 9, 55, 59}, sec \in {0, 59}}
BucketNows == {SecPerHour, SecPerHour + FIVE_MIN + 30, 2 * SecPerHour - 1}

NotBucketed == [done |-> FALSE, in_base |-> FALSE, key |-> IsoText(0),
                lower |-> IsoText(0), cutoff |-> IsoText(0)]

\* The window of a cycle at bk_now (24-29) and what base (39-46) makes of a
\* reading stamped bk_ts: whether the WHERE clause takes it, and its key.
BucketOf ==
    /\ ~bk_out.done
    /\ \E backfill_minutes \in Backfills :
        LET open_bucket_start == floor_to_5m(bk_now)
            cutoff_utc == iso_utc(open_bucket_start)
            lower_utc == iso_utc(open_bucket_start - backfill_minutes * SecPerMin)
            ts_utc == IsoText(bk_ts)
        IN bk_out' = [done |-> TRUE,
                      in_base |-> ~TextLess(ts_utc, lower_utc)
                                  /\ TextLess(ts_utc, cutoff_utc),
                      key |-> bucket_start_utc(ts_utc),
                      lower |-> lower_utc, cutoff |-> cutoff_utc]
    /\ UNCHANGED <<bk_ts, bk_now>>
    /\ UNCHANGED <<calVars, storeVars, dbVars, ingVars, legacyVars, rollupVars,
                   decodeVars, orchVars, openVars>>

InitBucket ==
    /\ bk_ts = 0
    /\ bk_now = 0
    /\ bk_out = NotBucketed

InitBucketArgs ==
    /\ bk_ts \in BucketTimes
    /\ bk_now \in BucketNows
    /\ bk_out = NotBucketed

NextBucket == BucketOf

\* ------------------------------------------------------------------------
\* The ingestor and the rollup worker on one database
\* ------------------------------------------------------------------------
\* The ingestor's connection has written rows it has not committed: its
\* transaction, opened by the INSERT (serial_ingestor.py 135-140), holds the
\* write lock of the database until the next commit.
WriterBusy == committed # CommitAll(readings, bad_rows, ingest_state)

\* A cycle of the rollup worker beside the ingestor: its INSERT (rollup_job.py
\* 120) needs the write lock, and raises "database is locked" while the
\* ingestor holds it; the handler at 132-134 and 150-151 takes it from there.
RunCycleShared ==
    /\ RunCycle
    /\ rollup_last'.result = "failed" <=> WriterBusy

NextShared == NextLoop \/ TickIngest \/ RunCycleShared

\* What goes on by itself: the steps of the ingestor after a line was read,
\* and the cycles of the rollup worker. Whether another line arrives is up
\* to the probes.
FairShared ==
    /\ WF_vars(DoCommit \/ SyncSpool \/ RotateRename \/ RotateOpen)
    /\ WF_vars(RunCycleShared)

\* ------------------------------------------------------------------------
\* core/pipe.py: the orchestrator
\* ------------------------------------------------------------------------
\* build_children, 164-200
ChildNames == {"ingestor", "rollups-5m", "api"}

\* min(..., 30.0), 90 and 93
MAX_BACKOFF == 30

Min(a, b) == IF a < b THEN a ELSE b

\* ChildSpec, 24-32: no process yet, backoff_sec 1.0
NewChild == [handle |-> "none", live |-> 0, backoff |-> 1]

\* ch.process.poll() is not None, for a child that has a process
ExitedAlways(c) == TRUE
Exited(c) == c.handle = "exited"

\* is_running, 61-62
is_running(c) == c.handle # "none" /\ ~Exited(c)

\* spawn, 34-45: Popen starts a process and ch.process refers to it
spawn(c) == [c EXCEPT !.handle = "running", !.live = @ + 1]

\* _maybe_restart, 84-94 (restart is True for every child, 180-198)
maybe_restart(c) ==
    IF c.handle # "none" /\ Exited(c)
    THEN [spawn(c) EXCEPT !.backoff = Min(c.backoff * 2, MAX_BACKOFF)]
    ELSE c

\* self.children, in the order of build_children (180-198)
ChildOrder == <<"ingestor", "rollups-5m", "api">>

\* The line limit of one _drain_logs (77), scaled to the model, and the
\* lines a pipe holds.
DrainLimit == 1

\* _drain_logs, 73-82: readline returns a line, or "" at the end of the
\* file, which comes when the process has exited; on the pipe of a running
\* process that has written nothing more it waits. So the call returns when
\* it has read DrainLimit lines or the process has exited, never before.
DrainNeverWaits(c, n) == TRUE
DrainReturns(c, n) == c.handle = "none" \/ n >= DrainLimit \/ Exited(c)

\* the lines left in the pipe after a _drain_logs that returned
Drained(n) == IF n >= DrainLimit THEN n - DrainLimit ELSE 0

\* start_all, 69-71 (called at 100)
StartAll ==
    /\ orch_pc = "start"
    /\ children' = [ch \in ChildNames |-> spawn(children[ch])]
    /\ orch_pc' = "run"
    /\ UNCHANGED <<orch_stop, cycles, orch_at, pipes>>
    /\ UNCHANGED <<calVars, storeVars, dbVars, ingVars, legacyVars, rollupVars,
                   decodeVars, openVars, bucketVars>>

\* The process ch.process refers to ends, by itself, by a failure or on a
\* signal it was sent.
ChildExit(ch) ==
    /\ children[ch].handle = "running"
    /\ children' = [children EXCEPT ![ch].handle = "exited", ![ch].live = @ - 1]
    /\ cycles' = IF ch = "rollups-5m" THEN Min(cycles, children[ch].live - 1)
                 ELSE cycles
    /\ UNCHANGED <<orch_pc, orch_stop, orch_at, pipes>>
    /\ UNCHANGED <<calVars, storeVars, dbVars, ingVars, legacyVars, rollupVars,
                   decodeVars, openVars, bucketVars>>

\* The process of a child prints a line.
ChildWrites(ch) ==
    /\ children[ch].handle = "running"
    /\ pipes[ch] < DrainLimit
    /\ pipes' = [pipes EXCEPT ![ch] = @ + 1]
    /\ UNCHANGED <<children, orch_pc, orch_stop, cycles, orch_at>>
    /\ UNCHANGED <<calVars, storeVars, dbVars, ingVars, legacyVars, rollupVars,
                   decodeVars, openVars, bucketVars>>

\* The body of the for loop of run for the child it is at, 104-109:
\* _drain_logs, then is_running or _maybe_restart. A signal that arrives
\* during the loop does not end it before the while test at 102.
OrchChild(ch) ==
    /\ orch_pc = "run"
    /\ orch_at <= Len(ChildOrder)
    /\ ch = ChildOrder[orch_at]
    /\ DrainReturns(children[ch], pipes[ch])
    /\ children' = [children EXCEPT ![ch] =
                       IF is_running(@) THEN @ ELSE maybe_restart(@)]
    /\ pipes' = [pipes EXCEPT ![ch] =
                    IF children'[ch] # children[ch] THEN 0 ELSE Drained(@)]
    /\ orch_at' = orch_at + 1
    /\ UNCHANGED <<orch_pc, orch_stop, cycles>>
    /\ UNCHANGED <<calVars, storeVars, dbVars, ingVars, legacyVars, rollupVars,
                   decodeVars, openVars, bucketVars>>

\* The while test at 102 finds _stop not set: the for loop starts again.
OrchLoopTest ==
    /\ orch_pc = "run"
    /\ orch_at = Len(ChildOrder) + 1
    /\ ~orch_stop
    /\ orch_at' = 1
    /\ UNCHANGED <<children, orch_pc, orch_stop, cycles, pipes>>
    /\ UNCHANGED <<calVars, storeVars, dbVars, ingVars, legacyVars, rollupVars,
                   decodeVars, openVars, bucketVars>>

\* _on_signal, 116-118
OrchSignal ==
    /\ orch_pc = "run"
    /\ ~orch_stop
    /\ orch_stop' = TRUE
    /\ UNCHANGED <<children, orch_pc, cycles, orch_at, pipes>>
    /\ UNCHANGED <<calVars, storeVars, dbVars, ingVars, legacyVars, rollupVars,
                   decodeVars, openVars, bucketVars>>

\* The while test at 102 finds _stop set; _shutdown, 120-122, sends SIGINT
\* to every running child. Whether and when a child ends on it is the
\* child's affair.
OrchShutdown ==
    /\ orch_pc = "run"
    /\ orch_at = Len(ChildOrder) + 1
    /\ orch_stop
    /\ orch_pc' = "wait"
    /\ UNCHANGED <<children, orch_stop, cycles, orch_at, pipes>>
    /\ UNCHANGED <<calVars, storeVars, dbVars, ingVars, legacyVars, rollupVars,
                   decodeVars, openVars, bucketVars>>

\* _shutdown, 123-139: until the deadline the running children are drained
\* (129), then every child still running is killed and drained once more.
\* The deadline is looked at between two rounds only (124), so the kill is
\* reached when no _drain_logs of the round waits.
OrchKill ==
    /\ orch_pc = "wait"
    /\ \A ch \in ChildNames :
          is_running(children[ch]) => DrainReturns(children[ch], pipes[ch])
    /\ children' = [ch \in ChildNames |->
                       IF is_running(children[ch])
                       THEN [children[ch] EXCEPT !.handle = "exited",
                                                 !.live = @ - 1]
                       ELSE children[ch]]
    /\ cycles' = Min(cycles, children'["rollups-5m"].live)
    /\ pipes' = [ch \in ChildNames |-> 0]
    /\ orch_pc' = "stopped"
    /\ UNCHANGED <<orch_stop, orch_at>>
    /\ UNCHANGED <<calVars, storeVars, dbVars, ingVars, legacyVars, rollupVars,
                   decodeVars, openVars, bucketVars>>

\* run_forever of a rollup process, rollup_job.py 143-151: the loop sleeps,
\* then runs one cycle, then sleeps again.
CycleBegins ==
    /\ cycles < children["rollups-5m"].live
    /\ cycles' = cycles + 1
    /\ UNCHANGED <<children, orch_pc, orch_stop, orch_at, pipes>>
    /\ UNCHANGED <<calVars, storeVars, dbVars, ingVars, legacyVars, rollupVars,
                   decodeVars, openVars, bucketVars>>

CycleEnds ==
    /\ cycles > 0
    /\ cycles' = cycles - 1
    /\ UNCHANGED <<children, orch_pc, orch_stop, orch_at, pipes>>
    /\ UNCHANGED <<calVars, storeVars, dbVars, ingVars, legacyVars, rollupVars,
                   decodeVars, openVars, bucketVars>>

InitOrch ==
    /\ children = [ch \in ChildNames |-> NewChild]
    /\ orch_pc = "start"
    /\ orch_stop = FALSE
    /\ cycles = 0
    /\ orch_at = Len(ChildOrder) + 1
    /\ pipes = [ch \in ChildNames |-> 0]

NextOrch ==
    \/ StartAll
    \/ \E ch \in ChildNames : ChildExit(ch)
    \/ \E ch \in ChildNames : ChildWrites(ch)
    \/ \E ch \in ChildNames : OrchChild(ch)
    \/ OrchLoopTest
    \/ OrchSignal
    \/ OrchShutdown
    \/ OrchKill
    \/ CycleBegins
    \/ CycleEnds

\* What goes on by itself: the steps of the orchestrator. What a child does
\* (run on, print, end) is up to the child.
FairOrch ==
    /\ WF_vars(StartAll)
    /\ WF_vars(\E ch \in ChildNames : OrchChild(ch))
    /\ WF_vars(OrchLoopTest)
    /\ WF_vars(OrchShutdown)
    /\ WF_vars(OrchKill)

\* ------------------------------------------------------------------------
\* Claims: ingestion (Spec, SpecLegacy)
\* ------------------------------------------------------------------------
\* C1: for every probe the persisted readings have strictly increasing
\* sequence numbers in storage order.
C1_StrictlyIncreasingSeq ==
    \A i \in 1..Len(readings) : \A j \in (i + 1)..Len(readings) :
        readings[i].plant_id = readings[j].plant_id
            => Val(readings[i].seq) < Val(readings[j].seq)

\* Scenario C's envelope: rh within [0, 100].
RhOutOfBounds(line) ==
    /\ line.kind = "json"
    /\ "rh" \in DOMAIN line.obj
    /\ IsNumber(line.obj.rh)
    /\ ~(0 <= line.obj.rh.v /\ line.obj.rh.v <= 100)

\* C2: a line carrying an out-of-bounds value adds zero reading rows (it is
\* never stored with the offending value nulled or clamped).
C2_OutOfBoundsAddsNoRow ==
    RhOutOfBounds(legacy_last.line) => legacy_last.added = 0

\* ------------------------------------------------------------------------
\* Claims: calibrations (SpecCal)
\* ------------------------------------------------------------------------
CalRowsOf(p) ==
    {i \in 1..Len(probe_calibrations) : probe_calibrations[i].probe_id = p}
ActiveCount(p) == Cardinality(ActiveRows(probe_calibrations, p))

\* C3: in every committed state of the store, under any interleaving of
\* set_active_calibration and upsert_active_calibration_from_defaults calls of
\* several threads, a probe has at most one calibration row with active=1, and
\* a probe that has a calibration row (each row is inserted active, so the
\* probe has once had an active calibration) has exactly one.
C3_OneActivePerProbe ==
    \A p \in Probes :
        /\ ActiveCount(p) <= 1
        /\ (CalRowsOf(p) # {} => ActiveCount(p) = 1)

\* Both threads have completed a call that created a calibration for the same
\* probe: the second superseded the first.
C3_Witness ==
    \E p \in Probes :
        /\ \A t \in Threads : /\ th[t].pc = "done"
                               /\ th[t].probe_id = p
                               /\ ~IsNone(th[t].ret)
        /\ th["t1"].ret # th["t2"].ret
        /\ Cardinality(CalRowsOf(p)) = 2
        /\ ActiveCount(p) = 1

\* C4: two upsert_active_calibration_from_defaults calls that both began
\* while the probe had no calibration, and both returned an id, return the
\* same id, and exactly one calibration row exists for the probe.
C4_ConcurrentEnsureSameId ==
    \A t1 \in Threads : \A t2 \in Threads \ {t1} :
        ( /\ th[t1].pc = "done" /\ th[t2].pc = "done"
          /\ th[t1].op = "upsert" /\ th[t2].op = "upsert"
          /\ th[t1].probe_id = th[t2].probe_id
          /\ th[t1].fresh /\ th[t2].fresh
          /\ ~IsNone(th[t1].ret) /\ ~IsNone(th[t2].ret) )
        => /\ th[t1].ret = th[t2].ret
           /\ Cardinality(CalRowsOf(th[t1].probe_id)) = 1

\* C30: when set_active_calibration fails at a step after it began, it
\* returns None with the committed tables as they were, so the probe's
\* previously active calibration is still its one active row, and the
\* connection holds no open transaction.
C30_FailedSetRollsBack ==
    [][\A t \in Threads :
         (/\ th[t].pc \in {"ensure", "deact", "insert", "recheck", "commit"}
          /\ th'[t].pc = "done"
          /\ IsNone(th'[t].ret)) =>
            LET p == th[t].probe_id IN
            /\ probes' = probes
            /\ probe_calibrations' = probe_calibrations
            /\ ActiveRows(probe_calibrations', p) = ActiveRows(probe_calibrations, p)
            /\ Cardinality(ActiveRows(probe_calibrations', p)) <= 1
            /\ wlock' # Some(t)]_vars

\* A call for a probe that had an active calibration has failed after it had
\* deactivated that row and inserted the new one; the old row is active.
C30_Witness ==
    \E t \in Threads :
        /\ th[t].pc = "done"
        /\ th[t].op = "set"
        /\ IsNone(th[t].ret)
        /\ ~IsNone(th[t].cal_id)
        /\ ~th[t].fresh
        /\ wlock # Some(t)
        /\ Cardinality(ActiveRows(probe_calibrations, th[t].probe_id)) = 1

\* ------------------------------------------------------------------------
\* Claims: readings of the wrapper (SpecStore)
\* ------------------------------------------------------------------------
\* C5: insert_batch_readings is atomic: it either persists every row of the
\* batch, in order, and returns True, or persists none and returns False; in
\* both cases no transaction is left open on the connection.
C5_BatchAtomic ==
    store_last.op = "batch" =>
        /\ ~store_conn.txn
        /\ store_conn.pending = <<>>
        /\ \/ /\ store_last.ret
              /\ store_readings = store_last.before \o RowsOf(store_arg)
           \/ /\ ~store_last.ret
              /\ store_readings = store_last.before

\* A batch of two valid rows whose second insert failed, on a store that
\* already held a row: the row count is unchanged.
C5_Witness ==
    /\ store_last.op = "batch"
    /\ store_last.tbl
    /\ Len(store_arg) = 2
    /\ \A i \in 1..2 : ~BuildRowRaises(store_arg[i])
    /\ store_last.fault = 2
    /\ ~store_last.ret
    /\ Len(store_last.before) = 1
    /\ store_readings = store_last.before

AllMeasurementsNull(p) == \A k \in MeasurementCols : p[k] = PNone
BadTimestamps == {TsIsoT, TsMonth, TsNoStr}

\* C6: insert_single_reading returns False and leaves the store unchanged when
\* the payload has no measurement or a timestamp not in the accepted format;
\* when it returns True exactly one row was added; every persisted reading
\* has at least one non-null measurement.
C6_SingleInsert ==
    /\ store_last.op = "single" =>
          LET p == store_arg[1] IN
          /\ (AllMeasurementsNull(p) \/ p.ts \in BadTimestamps)
                => (~store_last.ret /\ VisibleRows = store_last.before)
          /\ store_last.ret =>
                /\ Len(VisibleRows) = Len(store_last.before) + 1
                /\ Prefix(VisibleRows, Len(store_last.before)) = store_last.before
          /\ ~store_last.ret => VisibleRows = store_last.before
    /\ \A i \in 1..Len(store_readings) :
          \E k \in MeasurementCols : store_readings[i][k] # None

\* A payload with a valid timestamp and no measurement was refused although
\* the table exists and the database raised nothing.
C6_Witness ==
    /\ store_last.op = "single"
    /\ store_last.tbl
    /\ store_last.fault = 0
    /\ AllMeasurementsNull(store_arg[1])
    /\ store_arg[1].ts = TsGood
    /\ ~store_last.ret
    /\ Len(store_readings) = 1

\* C23: every reading the wrapper has persisted belongs to a probe that has
\* an active calibration; a reading of a probe without one is refused.
C23_NoCalibrationNoReading ==
    \A i \in 1..Len(store_readings) :
        LET p == store_readings[i].probe_id IN
        /\ ~IsNone(p)
        /\ ActiveRows(probe_calibrations, Val(p)) # {}

\* C28: readings are append-only: no step removes or changes a committed
\* reading, and the number of readings never decreases.
C28_ReadingsAppendOnly ==
    [][/\ Len(store_readings') >= Len(store_readings)
       /\ Prefix(store_readings', Len(store_readings)) = store_readings]_vars

Reverse(sq) == [k \in 1..Len(sq) |-> sq[Len(sq) + 1 - k]]

\* C29: for every n >= 1 get_last_readings(n, oldest_first=True) returns the
\* rows of get_last_readings(n, oldest_first=False) in reverse order, and
\* these are the min(n, row count) most recent readings by (ts, id), newest
\* first in the latter.
C29_LastReadingsReversed ==
    \A n \in 1..(MaxStoreRows + 1) :
        LET rs == store_readings
            asc == get_last_readings(rs, n, TRUE)
            desc == get_last_readings(rs, n, FALSE)
        IN /\ asc = Reverse(desc)
           /\ Len(desc) = IF n < Len(rs) THEN n ELSE Len(rs)
           /\ \A k \in 1..(Len(desc) - 1) : Newer(rs, desc[k], desc[k + 1])
           /\ \A i \in (1..Len(rs)) \ IdsOf(desc) :
                  \A k \in 1..Len(desc) : Newer(rs, desc[k], i)

\* The table holds three readings, the oldest inserted last but one and two
\* of them with the same ts, so that a limit of 2 leaves one out.
C29_Witness ==
    /\ Len(store_readings) = 3
    /\ store_readings[1].ts = TsGood2
    /\ store_readings[2].ts = TsGood
    /\ store_readings[3].ts = TsGood
    /\ get_last_readings(store_readings, 2, TRUE) = <<3, 1>>

\* ------------------------------------------------------------------------
\* Claims: the ingestion loop, its spool and its restart (Spec)
\* ------------------------------------------------------------------------
\* The step is an iteration of the read loop.
LineRead == lines_read' # lines_read

\* C11: a line that produces a reading row, a dead-letter row or a duplicate
\* drop has been appended to the active spool segment, as the first step
\* taken for it.
C11_SpooledBeforeDecision ==
    [][(LineRead /\ ing_last'.outcome \in {"ok", "bad", "check", "dup"}) =>
         /\ spool' = Append(spool, ing_last'.line)
         /\ ing_last'.steps[1] = "spool"]_vars

CodeOrder == <<"spool", "decode", "validate", "dedup", "insert">>

C13_CommitWhenTimeCapReached ==
    (/\ ing_pc = "loop"
     /\ ing_last.outcome \notin {"none", "restarted"}
     /\ ing_last.at - last_commit_time >= TIME_COMMIT_MAX_SEC)
        => committed.readings = Len(readings)

\* C14: a finished rotation has replaced no earlier retired segment, leaves
\* at most SPOOL_KEEP_FILES retired segments, and the segment it retired is
\* among them.
C14_RotationKeepsNewest ==
    rot_last.done =>
        /\ ~rot_last.replaced
        /\ Cardinality(retired) <= SPOOL_KEEP_FILES
        /\ \E f \in retired : f.name = rot_last.name

\* C15: the saved spool offset is at most the size of the active segment,
\* and no line before it is without a committed store effect.
C15_OffsetCoversOnlyCommitted ==
    /\ spool_offset <= Len(spool)
    /\ first_pending # 0 => spool_offset < first_pending

\* C16: a line whose insert fails leaves the in-memory last-sequence map,
\* the ingest_state cursor and the saved spool offset as they were.
C16_FailedInsertAdvancesNothing ==
    [][(LineRead /\ ing_last'.outcome \in {"check", "check_error", "integrity", "error"}) =>
         /\ last_seq_by_plant' = last_seq_by_plant
         /\ ingest_state' = ingest_state
         /\ spool_offset' = spool_offset]_vars

\* C17: no line ends the loop: after an iteration the loop is at its head
\* or at its commit.
C17_LoopNeverEnds ==
    [][LineRead => ing_pc' \in {"loop", "commit"}]_vars

\* C18: a line that fails decoding or validation adds one dead-letter row
\* with the line and the reason, adds no reading row, leaves the
\* last-sequence map and the duplicate counter alone, and the loop goes on.
C18_ParseFailureDeadLettered ==
    [][(LineRead /\ ~IsNoRecord(ing_last'.line) /\ ParseRaises(ing_last'.line)) =>
         /\ bad_rows' = Append(bad_rows, [line |-> ing_last'.line, error |-> "parse"])
         /\ readings' = readings
         /\ last_seq_by_plant' = last_seq_by_plant
         /\ dropped_dups' = dropped_dups
         /\ ing_pc' = "loop"]_vars

\* C19: a line dropped as a duplicate adds one to the counter, adds no
\* reading and no dead-letter row, leaves the last-sequence map alone, and
\* the store holds exactly one reading with its plant and seq.
C19_DuplicateDropped ==
    [][(LineRead /\ ing_last'.outcome = "dup") =>
         LET obj == ing_last'.line.obj
         IN /\ dropped_dups' = dropped_dups + 1
            /\ readings' = readings
            /\ bad_rows' = bad_rows
            /\ last_seq_by_plant' = last_seq_by_plant
            /\ Cardinality({i \in 1..Len(readings') :
                   /\ readings'[i].plant_id = obj.plant_id.v
                   /\ readings'[i].seq = Some(obj.seq.v)}) = 1]_vars

\* The seq of the last committed reading of a plant, None when it has none.
LastCommittedSeq(p) ==
    LET own == {i \in 1..committed.readings : readings[i].plant_id = p}
    IN IF own = {} THEN None
       ELSE readings[CHOOSE i \in own : \A j \in own : j <= i].seq

\* C20: the first line read after a restart, when its seq is that of the
\* last committed reading of its plant, is dropped as a duplicate and adds
\* no reading.
C20_DedupSurvivesRestart ==
    [][(/\ LineRead
        /\ ing_last.outcome = "restarted"
        /\ ing_last'.line.kind = "json"
        /\ ~ParseRaises(ing_last'.line)
        /\ LastCommittedSeq(ing_last'.line.obj.plant_id.v)
             = Some(ing_last'.line.obj.seq.v)) =>
         /\ ing_last'.outcome = "dup"
         /\ readings' = readings]_vars

\* C35: in the committed state of the database, the cursor of every plant is
\* the seq of the last committed reading of that plant, and there is no
\* cursor where there is no reading.
C35_CursorMatchesLastReading ==
    \A p \in Plants : committed.ingest_state[p] = LastCommittedSeq(p)

\* What a crash in the present state takes away: the readings that are
\* inserted and not committed.
LostByCrash == Len(readings) - committed.readings

\* C36 as stated: whenever the loop is between two iterations,
\* rows_since_commit lies in 0 .. flush_every - 1 and at most
\* rows_since_commit readings are inserted and not committed; and a crash,
\* whenever it comes, loses fewer than flush_every readings.
C36_UncommittedBelowFlushEvery ==
    /\ ing_pc = "loop" =>
        /\ rows_since_commit >= 0
        /\ rows_since_commit <= flush_every - 1
        /\ LostByCrash <= rows_since_commit
    /\ LostByCrash < flush_every

\* C36, amended: the same between two iterations; a crash, whenever it
\* comes, loses at most flush_every readings (flush_every of them when it
\* comes between the insert of the last row of a batch and the commit).
C36_CrashLosesAtMostFlushEvery ==
    /\ ing_pc = "loop" =>
        /\ rows_since_commit >= 0
        /\ rows_since_commit <= flush_every - 1
        /\ LostByCrash <= rows_since_commit
    /\ LostByCrash <= flush_every

\* A batch is full: the loop has inserted the last row of a batch of two
\* or more and has not yet committed it.
C36_Witness ==
    /\ ing_pc = "commit"
    /\ flush_every >= 2
    /\ rows_since_commit = flush_every
    /\ LostByCrash = flush_every

\* C22: an empty read or a line that is empty or whitespace-only leaves the
\* spool, the readings, the dead letters, the last-sequence map, the
\* persisted cursor and the duplicate counter unchanged.
C22_EmptyLineNoRecord ==
    [][(LineRead /\ ing_last'.line \in {EmptyLine, BlankLine}) =>
         /\ spool' = spool
         /\ readings' = readings
         /\ bad_rows' = bad_rows
         /\ last_seq_by_plant' = last_seq_by_plant
         /\ ingest_state' = ingest_state
         /\ dropped_dups' = dropped_dups]_vars

\* A whitespace-only line was read after a row had been inserted, and the
\* spool holds only the line of that row.
C22_Witness ==
    /\ ing_last.line = BlankLine
    /\ ing_last.outcome = "empty"
    /\ Len(readings) = 1
    /\ Len(spool) = 1
    /\ bad_rows = <<>>

\* C25: when the stop signal arrives while a line is being inserted, the
\* process exits with the line finished as a whole (its reading and its
\* cursor update both applied or both absent), everything committed and the
\* spool offset saved.
C25_StopFinishesLine ==
    [][(LineRead /\ ing_last'.outcome = "interrupt") =>
         LET obj == ing_last'.line.obj
         IN /\ ing_pc' = "exited"
            /\ (Len(readings') > Len(readings)
                  <=> ingest_state'[obj.plant_id.v] = Some(obj.seq.v))
            /\ committed' = CommitAll(readings', bad_rows', ingest_state')
            /\ spool_offset' = Len(spool')]_vars

\* C31: a step either appends to the active segment or retires it whole, and
\* a retired segment keeps its name and content until the pruning of a
\* rotation deletes it.
C31_SegmentsAppendOnly ==
    [][/\ \/ Len(spool') >= Len(spool) /\ Prefix(spool', Len(spool)) = spool
          \/ /\ ing_pc = "rotate"
             /\ spool' = <<>>
             /\ \E g \in retired' : g.lines = spool
       /\ \A f \in retired :
            \/ \E g \in retired' : g.name = f.name /\ g.lines = f.lines
            \/ ing_pc = "rotate_open" /\ \A g \in retired' : g.name # f.name]_vars

\* ------------------------------------------------------------------------
\* Claims: opening the serial port (SpecOpen)
\* ------------------------------------------------------------------------
\* C34: open_serial calls serial.Serial at most max_retries + 1 times and
\* has ended when that many calls have been made; no sleep is longer than
\* 30 seconds, and every sleep after the first is twice the one before it,
\* or 30 seconds.
C34_OpenSerialBackoff ==
    /\ os_opens <= os_max_retries + 1
    /\ os_opens = os_max_retries + 1 => os_pc \in {"returned", "raised"}
    /\ \A i \in 1..Len(os_delays) :
        /\ os_delays[i] <= 30
        /\ i > 1 => os_delays[i] = Min(2 * os_delays[i - 1], 30)

\* ------------------------------------------------------------------------
\* Claims: ingestion beside the rollup worker (SpecShared)
\* ------------------------------------------------------------------------
\* C33: a rollup cycle is never blocked for good by a transaction of the
\* ingestor: whenever the ingestor waits for a line and a cycle has failed,
\* a later cycle commits.
C33_RollupNotBlockedForGood ==
    [](ing_pc = "loop" /\ rollup_last.result = "failed"
         => <>(rollup_last.result = "ok"))

\* ------------------------------------------------------------------------
\* Claims: the orchestrator (SpecOrch)
\* ------------------------------------------------------------------------
\* C26: no child ever has two live processes, and at most one rollup cycle
\* is in flight.
C26_OneProcessOneCycle ==
    /\ \A ch \in ChildNames : children[ch].live <= 1
    /\ cycles <= 1

\* The rollup worker has exited and been started again more than once, and
\* its process is in a cycle.
C26_Witness ==
    /\ children["rollups-5m"].backoff > 2
    /\ children["rollups-5m"].handle = "running"
    /\ children["rollups-5m"].live = 1
    /\ cycles = 1

\* C38: while the orchestrator has not been told to stop, a child whose
\* process has exited is started again, whatever the other children do.
C38_ExitedChildRespawned ==
    \A ch \in ChildNames :
        [](children[ch].handle = "exited" /\ ~orch_stop
             => <>(children[ch].handle = "running" \/ orch_stop))

\* C39: after a stop signal, run returns and leaves no child running.
C39_StopEndsRun ==
    [](orch_stop =>
         <>(orch_pc = "stopped"
              /\ \A ch \in ChildNames : children[ch].live = 0))

\* ------------------------------------------------------------------------
\* Claims: decoding of a line (SpecDecode)
\* ------------------------------------------------------------------------
\* The keys C21 requires and the types it accepts for each (plant_id is the
\* name the ingestor gives the probe's identifier).
RequiredKeys ==
    [plant_id |-> {"int"}, seq |-> {"int"},
     lux |-> {"int", "float", "NoneType"}, rh |-> {"int", "float", "NoneType"},
     temp |-> {"int", "float", "NoneType"}, moisture_raw |-> {"int"}]

RequiredOk(line) ==
    /\ line.kind = "json"
    /\ \A k \in DOMAIN RequiredKeys :
         /\ k \in DOMAIN line.obj
         /\ line.obj[k].t \in RequiredKeys[k]

\* C21: a line is decoded as a record exactly when it is a JSON object whose
\* required keys are all present and correctly typed; extra keys and a null
\* moisture_pct or err do not make it a decode failure.
C21_DecodedIffRequiredKeys ==
    dec_out.done => (~dec_out.raised <=> RequiredOk(dec_line))

\* C24: the moisture percentage stored with a Reading lies in [0, 100]
\* whatever percentage the line carries, being computed from moisture_raw
\* and the calibration.
C24_MoisturePctInRange ==
    (dec_out.done /\ ~dec_out.raised) =>
        LET pct == Val(dec_out.row).moisture_pct IN
        ~IsNone(pct) => (0 <= Val(pct) /\ Val(pct) <= 100)

\* ------------------------------------------------------------------------
\* Claims: rollup (SpecRollup)
\* ------------------------------------------------------------------------
\* A bucket row without its updated_at stamp: the key and the aggregates.
Aggregates(b) == [plant_id |-> b.plant_id, bucket_start_utc |-> b.bucket_start_utc,
                  row_count |-> b.row_count, lux_avg |-> b.lux_avg,
                  lux_min |-> b.lux_min, lux_max |-> b.lux_max,
                  err_count |-> b.err_count]

\* The readings the last cycle read.
SeenReadings == SubSeq(readings, 1, rollup_last.seen)

\* C7: a successful run_once whose window and readings are those of the
\* successful run before it leaves every bucket row with the same aggregate
\* values and adds no bucket row.
C7_Idempotent ==
    [][rollup_last'.repeat =>
         /\ {Aggregates(b) : b \in readings_5m'} = {Aggregates(b) : b \in readings_5m}
         /\ Cardinality(readings_5m') = Cardinality(readings_5m)]_vars

\* The second of two equal runs has rewritten a bucket of its window.
C7_Witness ==
    /\ rollup_last.result = "ok"
    /\ rollup_last.repeat
    /\ \E b \in readings_5m :
        /\ b.bucket_start_utc >= rollup_last.lower
        /\ b.bucket_start_utc < rollup_last.cutoff

\* C8: after a successful run_once, every reading it read with a timestamp
\* in [lower, upper) has exactly one bucket row for its (plant, bucket start),
\* and that row counts the reading: its row_count is the number of readings
\* of the window with that key, lux_min <= lux <= lux_max when lux is not
\* NULL, and err_count >= 1 when err is set. This covers a reading inserted
\* into a bucket that was already rolled up.
C8_BackfillIncludesLateRow ==
    rollup_last.result = "ok" =>
      LET rs == SeenReadings
          base == Base(rs, rollup_last.lower, rollup_last.cutoff)
      IN \A i \in base :
          LET k == <<rs[i].plant_id, bucket_expr(rs[i].ts_utc)>>
              rows == {b \in readings_5m : KeyOf(b) = k}
          IN /\ Cardinality(rows) = 1
             /\ \A b \in rows :
                 /\ b.row_count =
                      Cardinality({j \in base : <<rs[j].plant_id,
                                                  bucket_expr(rs[j].ts_utc)>> = k})
                 /\ ~IsNone(rs[i].lux) =>
                      /\ Val(b.lux_min) <= Val(rs[i].lux)
                      /\ Val(rs[i].lux) <= Val(b.lux_max)
                 /\ rs[i].err # "" => b.err_count >= 1

\* A cycle has rolled up a reading that was committed after the cycle
\* before it, into a bucket that already had its row.
C8_Witness ==
    /\ rollup_last.result = "ok"
    /\ rollup_last.late
    /\ \E b \in readings_5m : b.row_count >= 2

\* C9: every bucket row a successful cycle writes has a row_count equal to
\* the number of readings of that plant in the bucket's whole five minutes.
C9_FullBucketAggregate ==
    rollup_last.result = "ok" =>
      LET rs == SeenReadings
          written == {KeyOf(b) : b \in Agg(rs, rollup_last.lower,
                                           rollup_last.cutoff, 0)}
      IN \A b \in readings_5m :
          KeyOf(b) \in written =>
            b.row_count =
              Cardinality({j \in 1..Len(rs) :
                  /\ rs[j].plant_id = b.plant_id
                  /\ rs[j].ts_utc >= b.bucket_start_utc
                  /\ rs[j].ts_utc < b.bucket_start_utc + FIVE_MIN})

\* C27: every bucket row a cycle inserts or updates starts before the
\* cycle's upper bound, which is the start of the open 5-minute bucket; the
\* lower bound is the upper bound minus the backfill; and the row counts
\* exactly the committed readings of its plant and bucket whose timestamp
\* lies in [lower, upper).
C27_OnlyClosedBucketsOfWindow ==
    [][readings_5m' # readings_5m =>
         LET upper == rollup_last'.cutoff
             lower == rollup_last'.lower
             rs == CommittedReadings
         IN /\ upper % FIVE_MIN = 0
            /\ upper <= now /\ now < upper + FIVE_MIN
            /\ \E bf \in Backfills : lower = upper - bf * SecPerMin
            /\ \A b \in readings_5m' \ readings_5m :
                 /\ b.bucket_start_utc < upper
                 /\ b.row_count = Cardinality({i \in 1..Len(rs) :
                        /\ rs[i].plant_id = b.plant_id
                        /\ b.bucket_start_utc <= rs[i].ts_utc
                        /\ rs[i].ts_utc < b.bucket_start_utc + FIVE_MIN
                        /\ lower <= rs[i].ts_utc
                        /\ rs[i].ts_utc < upper})]_vars

\* A cycle has written a bucket row while a committed reading of the open
\* bucket was in the table.
C27_Witness ==
    /\ rollup_last.result = "ok"
    /\ readings_5m # {}
    /\ \E i \in 1..rollup_last.seen :
          /\ readings[i].ts_utc >= rollup_last.cutoff
          /\ \A b \in readings_5m : b.bucket_start_utc < rollup_last.cutoff
    /\ \E b \in readings_5m : b.updated_at = rollup_meta.last_run_utc

\* C32: a step of a rollup cycle, successful or failed, leaves the readings,
\* dead-letter, cursor and calibration tables as they were, and every bucket
\* row it writes is an aggregate row of the committed readings of its
\* window; a step that writes readings leaves the bucket rows and the rollup
\* metadata as they were.
C32_RollupWritesOnlyBuckets ==
    [][/\ (readings_5m' # readings_5m \/ rollup_meta' # rollup_meta
             \/ rollup_last' # rollup_last) =>
            /\ UNCHANGED <<readings, bad_rows, ingest_state, committed>>
            /\ UNCHANGED <<probes, probe_calibrations, store_readings>>
            /\ \A b \in readings_5m' \ readings_5m :
                 b \in Agg(CommittedReadings, rollup_last'.lower,
                           rollup_last'.cutoff, now)
       /\ (readings' # readings \/ committed' # committed) =>
            UNCHANGED <<readings_5m, rollup_meta>>]_vars

\* A cycle has written anew the row of a bucket that had been rolled up
\* before, with a reading that carries an error.
C32_Witness ==
    /\ rollup_last.result = "ok"
    /\ rollup_last.late
    /\ \E b \in readings_5m :
        /\ b.updated_at = rollup_meta.last_run_utc
        /\ b.err_count >= 1
        /\ b.row_count >= 2

\* C37: the key that the SQL expression computes for a stored timestamp is
\* the text of floor_to_5m of its time: its minute is a multiple of 5, its
\* seconds are 00, and key <= timestamp < key + 5 minutes; the WHERE clause
\* takes the timestamp exactly when lower <= timestamp < upper, so a
\* timestamp equal to the upper bound is left out.
C37_BucketKeyIsFloor ==
    bk_out.done =>
        /\ bk_out.key = iso_utc(floor_to_5m(bk_ts))
        /\ CastInt(bk_out.key.mm) % 5 = 0
        /\ bk_out.key.ss = <<0, 0>>
        /\ TimeOf(bk_out.key) <= bk_ts
        /\ bk_ts < TimeOf(bk_out.key) + FIVE_MIN
        /\ bk_out.in_base <=>
              (TimeOf(bk_out.lower) <= bk_ts /\ bk_ts < TimeOf(bk_out.cutoff))
        /\ bk_ts = TimeOf(bk_out.cutoff) => ~bk_out.in_base

\* A timestamp in the last second of a bucket has been given its key, and
\* the window has taken it.
C37_Witness ==
    /\ bk_out.done
    /\ bk_out.in_base
    /\ bk_ts = TimeOf(bk_out.key) + FIVE_MIN - 1

\* A timestamp equal to the upper bound of the window has been looked at.
C37_WitnessUpperBound ==
    /\ bk_out.done
    /\ bk_ts = TimeOf(bk_out.cutoff)

\* C10: a cycle that fails leaves readings_5m as it was before the cycle,
\* and run_forever is still in its loop (the only guard of the next cycle).
C10_FailedCycleRollsBack ==
    [][rollup_last'.result = "failed" =>
         /\ readings_5m' = readings_5m
         /\ rollup_pc' = "sleep"]_vars

\* A cycle has failed that had bucket rows to write which the table does
\* not hold.
C10_Witness ==
    /\ rollup_last.result = "failed"
    /\ \E r \in Agg(SeenReadings, rollup_last.lower, rollup_last.cutoff, 0) :
        \A b \in readings_5m : Aggregates(b) # Aggregates(r)

Init ==
    /\ InitCal /\ InitStore /\ InitDb /\ InitIngest /\ InitLegacy /\ InitRollup
    /\ InitOrch
    /\ InitBucket
    /\ InitOpen
    /\ InitDecode

InitSerial ==
    /\ InitCal /\ InitStore /\ InitDb /\ InitIngestArgs /\ InitLegacy /\ InitRollup
    /\ InitOrch
    /\ InitBucket
    /\ InitOpen
    /\ InitDecode

InitRetries ==
    /\ InitCal /\ InitStore /\ InitDb /\ InitIngest /\ InitLegacy /\ InitRollup
    /\ InitOrch
    /\ InitBucket
    /\ InitOpenArgs
    /\ InitDecode

InitStamp ==
    /\ InitCal /\ InitStore /\ InitDb /\ InitIngest /\ InitLegacy /\ InitRollup
    /\ InitOrch
    /\ InitBucketArgs
    /\ InitOpen
    /\ InitDecode

InitLine ==
    /\ InitCal /\ InitStore /\ InitDb /\ InitIngest /\ InitLegacy /\ InitRollup
    /\ InitOrch
    /\ InitBucket
    /\ InitOpen
    /\ InitDecodeLine

Spec == InitSerial /\ [][NextIngest]_vars
SpecLoop == InitSerial /\ [][NextLoop]_vars
SpecDecode == InitLine /\ [][NextDecode]_vars
SpecOrch == Init /\ [][NextOrch]_vars
SpecOrchLive == Init /\ [][NextOrch]_vars /\ FairOrch
SpecOpen == InitRetries /\ [][NextOpen]_vars
SpecBucket == InitStamp /\ [][NextBucket]_vars
SpecShared == Init /\ [][NextShared]_vars /\ FairShared
SpecLegacy == Init /\ [][NextLegacy]_vars
SpecRollup == Init /\ [][NextRollup]_vars

SpecCal == Init /\ [][NextCal]_vars
SpecStore == Init /\ [][NextStore]_vars
SpecStoreOpen == Init /\ [][NextStoreOpen]_vars
====
